---- MODULE Spec2Model ----
(***************************************************************************)
(* Context Research Engine of NOVIX: the research loop of the orchestrator *)
(* (backend/app/orchestrator/orchestrator.py), the payload builders of the  *)
(* context mixin (backend/app/orchestrator/_context_mixin.py), the working  *)
(* memory service (backend/app/services/working_memory_service.py) and the  *)
(* planner of the writer agent (backend/app/agents/writer.py).              *)
(*                                                                         *)
(* Scores are kept in tenths (3.0 is 30, 3.8 is 38) so that they stay      *)
(* integers.  Texts are abstract strings; the terms a text contains are    *)
(* given by TermsOf, and str.strip() by Strip.                             *)
(***************************************************************************)
EXTENDS Integers, Sequences, FiniteSets, TLC

\* ------------------------------------------------------------------ bounds
MaxBoundRounds == 2
MaxBoundQuestionRounds == 1
MaxGaps == 2
MaxUnitGaps == 4
MaxItems == 2
MaxLines == 3
MaxLineLen == 2
MaxOverCap == 1
MaxEvidence == 2
MaxClock == 1
MaxFlows == 3

\* ------------------------------------------------------ program constants
MIN_GAP_SUPPORT_SCORE == 30
WELL_SUPPORTED_MARGIN == 8
MIN_WORLD_RULE_SCORE == 35
MIN_WORLD_RULE_STARS == 3
MAX_WORLD_RULE == 6
MAX_FACT == 8
MAX_SUMMARY == 4
MAX_WORLD_ENTITY == 6
MAX_CHARACTER == 4
MAX_TEXT_CHUNK == 4
MAX_MEMORY == 4
MAX_BRIEF_FACTS == 12
UNFOCUSED_FACTS_LIMIT == 5
MAX_GAP_BULLETS == 6
FOCUS_CHARACTER_LIMIT == 6
MATERIAL_TEXT_LIMIT == 140
CHUNK_TEXT_LIMIT == 120
BOUNDARY_MIN_INDEX == 12
LOW_ENTITY_SCORE == 25
MAX_STARS == 3
ANSWERED_SKIP_BONUS == 10
ANSWER_ITEM_SCORE == 10
PERSISTED_ANSWER_SCORE == 100
PLAN_QUERY_LIMIT == 4
PLAN_FALLBACK_LIMIT == 3
OFFLINE_QUERY_LIMIT == 4
MERGED_QUERY_LIMIT == 8
GAP_LIMIT == 8
UNRESOLVED_LIMIT == 3
QUESTION_LIMIT == 3
CHARACTER_GAP_LIMIT == 2
SEED_NAME_LIMIT == 3

\* ------------------------------------------------------------ sequences
Range(s) == {s[i] : i \in 1..Len(s)}

Take(s, n) == IF Len(s) <= n THEN s ELSE SubSeq(s, 1, n)

RECURSIVE SelectItems(_, _)
\* [item for item in items if keep(item)], keep given as a set of positions
SelectItems(items, keep) ==
    IF items = <<>> THEN <<>>
    ELSE LET n == Len(items)
             front == SelectItems(SubSeq(items, 1, n - 1), keep)
         IN IF n \in keep THEN Append(front, items[n]) ELSE front

RECURSIVE ListsUpTo(_, _)
\* the lists of at most n elements of S
ListsUpTo(S, n) ==
    IF n = 0 THEN {<<>>}
    ELSE ListsUpTo(S, n - 1)
         \cup {Append(l, x) : l \in {m \in ListsUpTo(S, n - 1) : Len(m) = n - 1},
                              x \in S}

\* list(dict.fromkeys(s)): first occurrences, in order
RECURSIVE DedupAcc(_, _)
DedupAcc(s, seen) ==
    IF s = <<>> THEN <<>>
    ELSE IF Head(s) \in seen THEN DedupAcc(Tail(s), seen)
         ELSE <<Head(s)>> \o DedupAcc(Tail(s), seen \cup {Head(s)})

Dedup(s) == DedupAcc(s, {})

\* ------------------------------------------------------------------ texts
\* str.strip() on the raw strings a planner reply can hold
Strip(q) ==
    CASE q = "" -> ""
      [] q = " " -> ""
      [] q = " qa" -> "qa"
      [] OTHER -> q

RECURSIVE StripNonBlank(_)
\* [str(q).strip() for q in qs if str(q).strip()]
StripNonBlank(qs) ==
    IF qs = <<>> THEN <<>>
    ELSE IF Strip(Head(qs)) = "" THEN StripNonBlank(Tail(qs))
         ELSE <<Strip(Head(qs))>> \o StripNonBlank(Tail(qs))

\* the terms (n-grams, word tokens) a text contains
TermsOf(text) ==
    CASE text = "goal_plain" -> {"t_goal"}
      [] text = "goal_time" -> {"t_goal", "t_time"}
      [] text = "gap_time" -> {"t_time"}
      [] text = "gap_who" -> {"t_who"}
      [] text = "gap_world" -> {"t_world"}
      [] text = "gap_facts" -> {"t_facts"}
      [] text = "gap_plot" -> {"t_plot"}
      [] text = "gap_change_A" -> {"A"}
      [] text = "gap_change_B" -> {"B"}
      [] text = "q_who" -> {"t_who"}
      [] text = "q_time" -> {"t_time"}
      [] text = "q_world" -> {"t_world"}
      [] text = "q_facts" -> {"t_facts"}
      [] text = "A" -> {"A"}
      [] text = "B" -> {"B"}
      [] text = "qa" -> {"t_qa"}
      [] OTHER -> {}

\* _term_overlap: how many of the terms occur in the text
TermOverlap(text, terms) == Cardinality(TermsOf(text) \cap terms)

\* _query_hits: some non-empty query has a term that occurs in the text
QueryHits(text, queries) ==
    \E i \in 1..Len(queries) :
        /\ queries[i] # ""
        /\ TermsOf(queries[i]) # {}
        /\ TermOverlap(text, TermsOf(queries[i])) > 0

\* _is_focus_related: the text shares a term with the focus terms
IsFocusRelated(text, focus_terms) ==
    /\ text # ""
    /\ focus_terms # {}
    /\ TermsOf(text) \cap focus_terms # {}

\* _build_focus_terms: terms of the goal plus the brief's character names
BuildFocusTerms(brief) == TermsOf(brief.goal) \cup Range(brief.characters)

\* ------------------------------------------------------------- gap builder
CharacterGaps(names) ==
    [i \in 1..Len(names) |->
        [kind |-> "character_change",
         text |-> IF names[i] = "A" THEN "gap_change_A" ELSE "gap_change_B",
         queries |-> <<names[i]>>,
         ask_user |-> TRUE]]

\* _unique_gaps: deduplicate by text, keep at most limit
RECURSIVE UniqueGapsAcc(_, _, _)
UniqueGapsAcc(gs, seen, limit) ==
    IF gs = <<>> \/ limit = 0 THEN <<>>
    ELSE IF Head(gs).text = "" \/ Head(gs).text \in seen
         THEN UniqueGapsAcc(Tail(gs), seen, limit)
         ELSE <<Head(gs)>> \o UniqueGapsAcc(Tail(gs), seen \cup {Head(gs).text}, limit - 1)

UniqueGaps(gs, limit) == UniqueGapsAcc(gs, {}, limit)

\* build_gap_items
BuildGapItems(brief) ==
    LET goalGap == IF brief.goal # ""
                   THEN << [kind |-> "plot_point", text |-> "gap_plot",
                            queries |-> <<brief.goal>>, ask_user |-> TRUE] >>
                   ELSE <<>>
        charGaps == IF brief.characters = <<>>
                    THEN << [kind |-> "detail_gap", text |-> "gap_who",
                             queries |-> <<"q_who">>, ask_user |-> TRUE] >>
                    ELSE CharacterGaps(Take(brief.characters, CHARACTER_GAP_LIMIT))
        timeGap == IF ~brief.timeline
                   THEN << [kind |-> "detail_gap", text |-> "gap_time",
                            queries |-> <<"q_time">>, ask_user |-> TRUE] >>
                   ELSE <<>>
        worldGap == IF ~brief.world
                    THEN << [kind |-> "plot_point", text |-> "gap_world",
                             queries |-> <<"q_world">>, ask_user |-> TRUE] >>
                    ELSE <<>>
        factGap == IF ~brief.facts
                   THEN << [kind |-> "detail_gap", text |-> "gap_facts",
                            queries |-> <<"q_facts">>, ask_user |-> TRUE] >>
                   ELSE <<>>
    IN UniqueGaps(goalGap \o charGaps \o timeGap \o worldGap \o factGap, GAP_LIMIT)

\* the extra_research gap appended by prepare when extra queries exist
ExtraGap(extra_list) ==
    [kind |-> "extra_research", text |-> "gap_extra",
     queries |-> extra_list, ask_user |-> FALSE]

PrepareGaps(brief, extra_queries) ==
    LET extra_list == StripNonBlank(extra_queries)
    IN IF extra_list # <<>>
       THEN BuildGapItems(brief) \o <<ExtraGap(extra_list)>>
       ELSE BuildGapItems(brief)

\* ------------------------------------------------------------ gap scoring
\* a score that takes the maximum over all items, matching or not
GapSupportScoreUngated(gap, items) ==
    IF gap.queries = <<>> \/ items = <<>> THEN 0
    ELSE CHOOSE m \in {items[i].score : i \in 1..Len(items)} :
             \A j \in 1..Len(items) : items[j].score <= m

\* an evidence item is its score and its text
RECURSIVE GapSupportScore(_, _)
\* _gap_support_score: maximum score over the items hit by the gap's queries
GapSupportScore(gap, items) ==
    IF gap.queries = <<>> \/ items = <<>> THEN 0
    ELSE LET rest == GapSupportScore(gap, Tail(items))
         IN IF /\ Head(items).text # ""
               /\ QueryHits(Head(items).text, gap.queries)
               /\ Head(items).score > rest
            THEN Head(items).score ELSE rest

\* a support test that excludes the threshold itself
IsSupportedScoreStrict(score) == score > MIN_GAP_SUPPORT_SCORE

\* line 358: score >= self.MIN_GAP_SUPPORT_SCORE
IsSupportedScore(score) == score >= MIN_GAP_SUPPORT_SCORE

WellSupportedBound == MIN_GAP_SUPPORT_SCORE + WELL_SUPPORTED_MARGIN


\* supported.get(text, False) and gap_support_scores.get(text, 0.0)
SupportedOf(supported, text) == IF text \in DOMAIN supported THEN supported[text] ELSE FALSE

ScoreOf(scores, text) == IF text \in DOMAIN scores THEN scores[text] ELSE 0

IsFocusGap(gap, focus_terms) ==
    IsFocusRelated(gap.text, focus_terms) \/ gap.kind = "plot_point"

\* the criterion shared by the selector and the classifier for one askable gap
GapIsMissing(gap, supported) == ~SupportedOf(supported, gap.text)

\* a weakness test without the well-supported bound
GapIsWeakAny(gap, supported, scores) == SupportedOf(supported, gap.text)

GapIsWeak(gap, supported, scores) ==
    /\ SupportedOf(supported, gap.text)
    /\ ScoreOf(scores, gap.text) < WellSupportedBound

\* -------------------------------------------------- unresolved gap selector
\* a filter that lets every gap through
AskableAll(gaps) == gaps

\* line 470: the gaps whose ask_user flag is set
RECURSIVE Askable(_)
Askable(gaps) ==
    IF gaps = <<>> THEN <<>>
    ELSE IF Head(gaps).ask_user THEN <<Head(gaps)>> \o Askable(Tail(gaps))
         ELSE Askable(Tail(gaps))

\* add_gap: append unless the text is empty or already selected
AddGap(selected, gap) ==
    IF gap.text = "" \/ gap.text \in {selected[i].text : i \in 1..Len(selected)}
    THEN selected ELSE Append(selected, gap)

RECURSIVE FirstPlotPoint(_)
FirstPlotPoint(askable) ==
    IF askable = <<>> THEN <<>>
    ELSE IF Head(askable).kind = "plot_point" THEN <<Head(askable)>>
         ELSE FirstPlotPoint(Tail(askable))

RECURSIVE SelectByCriterionUnbounded(_, _, _, _, _)
\* a selection loop without the test on the number already selected
SelectByCriterionUnbounded(askable, selected, supported, scores, focus_terms) ==
    IF askable = <<>> THEN selected
    ELSE LET gap == Head(askable)
             pick == \/ GapIsMissing(gap, supported)
                     \/ (GapIsWeak(gap, supported, scores) /\ IsFocusGap(gap, focus_terms))
         IN SelectByCriterionUnbounded(Tail(askable),
                              IF gap.text # "" /\ pick THEN AddGap(selected, gap) ELSE selected,
                              supported, scores, focus_terms)

\* lines 492-504: unsupported gaps and weak focus gaps, while fewer than three
RECURSIVE SelectByCriterion(_, _, _, _, _)
SelectByCriterion(askable, selected, supported, scores, focus_terms) ==
    IF askable = <<>> \/ Len(selected) >= UNRESOLVED_LIMIT THEN selected
    ELSE LET gap == Head(askable)
             pick == \/ GapIsMissing(gap, supported)
                     \/ (GapIsWeak(gap, supported, scores) /\ IsFocusGap(gap, focus_terms))
         IN SelectByCriterion(Tail(askable),
                              IF gap.text # "" /\ pick THEN AddGap(selected, gap) ELSE selected,
                              supported, scores, focus_terms)

RECURSIVE FillMinimum(_, _)
FillMinimum(askable, selected) ==
    IF askable = <<>> \/ Len(selected) >= UNRESOLVED_LIMIT THEN selected
    ELSE FillMinimum(Tail(askable), AddGap(selected, Head(askable)))

\* a selector that takes the first askable gaps whatever their support
SelectUnresolvedGapsFirst(gaps, supported, scores, focus_terms, force_minimum_questions) ==
    FillMinimum(Askable(gaps), <<>>)

\* _select_unresolved_gaps
SelectUnresolvedGaps(gaps, supported, scores, focus_terms, force_minimum_questions) ==
    LET askable == Askable(gaps)
        first == IF force_minimum_questions /\ FirstPlotPoint(askable) # <<>>
                 THEN AddGap(<<>>, FirstPlotPoint(askable)[1]) ELSE <<>>
        chosen == SelectByCriterion(askable, first, supported, scores, focus_terms)
    IN IF askable = <<>> THEN <<>>
       ELSE IF force_minimum_questions THEN FillMinimum(askable, chosen)
       ELSE chosen

\* ------------------------------------------------------ question generator
\* _make_question_key: the key of a question is fixed by gap kind and gap text
MakeQuestionKey(kind, text) == <<kind, text>>

RECURSIVE BuildQuestionsOf(_, _)
BuildQuestionsOf(gaps, unknown_gap_texts) ==
    IF gaps = <<>> THEN <<>>
    ELSE LET gap == Head(gaps)
             rest == BuildQuestionsOf(Tail(gaps), unknown_gap_texts)
         IN IF gap.text = "" \/ gap.text \in unknown_gap_texts THEN rest
            ELSE << [type |-> gap.kind, gap |-> gap.text,
                     key |-> MakeQuestionKey(gap.kind, gap.text)] >> \o rest

\* _build_questions: questions for the first three unresolved gaps
BuildQuestions(unresolved_gaps, unknown_gap_texts) ==
    BuildQuestionsOf(Take(unresolved_gaps, QUESTION_LIMIT), unknown_gap_texts)

\* -------------------------------------------------- sufficiency classifier
RECURSIVE GapTextsWhere(_, _)
GapTextsWhere(gaps, texts) ==
    IF gaps = <<>> THEN <<>>
    ELSE IF Head(gaps).text \in texts
         THEN <<Head(gaps).text>> \o GapTextsWhere(Tail(gaps), texts)
         ELSE GapTextsWhere(Tail(gaps), texts)

\* a report that always asks for user input
NeedsUserInputAlways(insufficient) == TRUE

\* report["needs_user_input"] as derived from the insufficiency flag
NeedsUserInput(insufficient) == insufficient

\* a verdict that looks at the missing gaps only
InsufficientMissingOnly(missing, critical) == missing # {}

\* line 608: insufficient = bool(unresolved or critical_weak)
Insufficient(missing, critical) == missing # {} \/ critical # {}

\* _build_sufficiency_report
BuildSufficiencyReport(gaps, supported, scores, focus_terms, unknown_gap_texts) ==
    LET askable == Askable(gaps)
        idx == 1..Len(askable)
        missing == {askable[i].text : i \in {j \in idx :
                        askable[j].text # "" /\ GapIsMissing(askable[j], supported)}}
        weak == {askable[i].text : i \in {j \in idx :
                        askable[j].text # "" /\ GapIsWeak(askable[j], supported, scores)}}
        critical == {askable[i].text : i \in {j \in idx :
                        /\ askable[j].text # ""
                        /\ GapIsWeak(askable[j], supported, scores)
                        /\ IsFocusGap(askable[j], focus_terms)}}
        insufficient == Insufficient(missing, critical)
    IN [sufficient |-> ~insufficient,
        needs_user_input |-> NeedsUserInput(insufficient),
        missing_entities |-> GapTextsWhere(askable, missing),
        weak_gaps |-> GapTextsWhere(askable, weak),
        critical_weak_gaps |-> GapTextsWhere(askable, critical),
        unknown_gaps |-> unknown_gap_texts]

\* ------------------------------------------------------------ user answers
\* an answer names the gap its question was about ("" for a question that is
\* about no gap), and is "valid" or "unknown" per _is_invalid_answer_text
AnswerTexts(answers, verdict) ==
    {answers[i].gap : i \in {j \in 1..Len(answers) : answers[j].answer = verdict}} \ {""}

\* _answered_gap_texts_from_answers
AnsweredGapTexts(gaps, answers) ==
    {gaps[i].text : i \in 1..Len(gaps)} \cap AnswerTexts(answers, "valid")

\* _unknown_gap_texts_from_answers
UnknownGapTexts(gaps, answers) ==
    {gaps[i].text : i \in 1..Len(gaps)} \cap AnswerTexts(answers, "unknown")

\* _answer_to_evidence_items: one memory item per answer, numbered from 1 under
\* the clock's second; score 1.0; a "don't know" is tagged user_unknown
AnswerToEvidenceItems(answers, timestamp) ==
    [i \in 1..Len(answers) |->
        [id |-> <<timestamp, i>>, type |-> "memory", score |-> ANSWER_ITEM_SCORE,
         gap |-> answers[i].gap,
         kind |-> IF answers[i].answer = "unknown" THEN "user_unknown" ELSE "user_answer"]]

\* _load_chapter_answer_memory_items: of the chapter's stored memory items only
\* those tagged user_answer are returned, each with score 10.0
LoadChapterAnswerMemoryItems(stored) ==
    {[it EXCEPT !.score = PERSISTED_ANSWER_SCORE] : it \in {s \in stored : s.kind = "user_answer"}}

\* _answered_gap_texts_from_memory: gaps a loaded memory item's question names
AnsweredGapTextsFromMemory(gaps, memory_items) ==
    {gaps[i].text : i \in 1..Len(gaps)} \cap ({it.gap : it \in memory_items} \ {""})


\* ----------------------------------------------------------------- planner
\* replies of the language model behind WriterAgent.generate_research_plan:
\* a parsed dict with a query list, or output that does not parse to a dict
PlanReplies ==
    {[parsed |-> TRUE, queries |-> qs] : qs \in {<<" ">>, <<" qa", "">>}}
    \cup {[parsed |-> FALSE, queries |-> <<>>]}

GapTexts(gs) == [i \in 1..Len(gs) |-> gs[i].text]

\* WriterAgent.generate_research_plan, after the model replied
GenerateResearchPlan(unresolved_gaps, reply) ==
    LET gap_texts == StripNonBlank(GapTexts(unresolved_gaps))
        cleaned == IF reply.parsed THEN StripNonBlank(reply.queries) ELSE <<>>
    IN IF cleaned # <<>> THEN Take(cleaned, PLAN_QUERY_LIMIT)
       ELSE Take(gap_texts, PLAN_FALLBACK_LIMIT)

RECURSIVE GapQueries(_)
GapQueries(gs) == IF gs = <<>> THEN <<>> ELSE Head(gs).queries \o GapQueries(Tail(gs))

\* the offline plan: the gaps' own queries, deduplicated, first four
OfflinePlanQueries(initial_gaps) ==
    Take(Dedup(StripNonBlank(GapQueries(initial_gaps))), OFFLINE_QUERY_LIMIT)

\* _extract_scene_brief_names(scene_brief, limit=3): the retrieval seeds
RetrievalSeeds(brief) == Take(Dedup(StripNonBlank(brief.characters)), SEED_NAME_LIMIT)

\* merged_extra_queries of one round
MergedExtraQueries(extra, seeds) ==
    IF seeds # <<>> THEN Take(Dedup(StripNonBlank(extra \o seeds)), MERGED_QUERY_LIMIT)
    ELSE extra

\* a range that starts one index early
RoundRangeFromZero(max_rounds) == 0..max_rounds

\* range(1, self.max_research_rounds + 1)
RoundRange(max_rounds) == 1..max_rounds

\* the first index the for loop takes
FirstRound(max_rounds) ==
    IF RoundRange(max_rounds) = {} THEN 1
    ELSE CHOOSE r \in RoundRange(max_rounds) : \A q \in RoundRange(max_rounds) : r <= q

\* a bound test that lets the last round pass
AtRoundBoundStrict(r, max_rounds) == r > max_rounds

\* round_index >= self.max_research_rounds
AtRoundBound(r, max_rounds) == r >= max_rounds

\* ------------------------------------------------------------------ search
ItemScores == {30, 42}

\* scores of an item that matches the goal only loosely
LowItemScores == {10}

\* results of evidence_service.search for one gap: nothing, or one item whose
\* text repeats the gap's first query; for the goal's gap the item may be a
\* loose match
SearchResults(gap) ==
    {<<>>} \cup {<<[score |-> s, text |-> gap.queries[1]]>> :
                    s \in ItemScores \cup (IF gap.text = "gap_plot" THEN LowItemScores ELSE {})}

\* the gap recorded for the goal fallback search (lines 383 and 391)
GoalFallbackGap(brief) ==
    [kind |-> "fallback", text |-> "goal_fallback", queries |-> <<brief.goal>>,
     ask_user |-> FALSE]

\* ---------------------------------------------------------------- payloads
NoReport ==
    [sufficient |-> FALSE, needs_user_input |-> FALSE, missing_entities |-> <<>>,
     weak_gaps |-> <<>>, critical_weak_gaps |-> <<>>, unknown_gaps |-> {}]

\* Python's None where a payload is expected
NoPayload ==
    [present |-> FALSE, unresolved_gaps |-> <<>>, questions |-> <<>>,
     sufficiency_report |-> NoReport, research_stop_reason |-> "absent"]

NoResponse == [status |-> "none", questions |-> <<>>, stop |-> "absent"]

Briefs ==
    {b \in [goal : {"", "goal_plain", "goal_time"},
            characters : {<<>>, <<"A">>, <<"A", "B">>},
            timeline : BOOLEAN, world : BOOLEAN, facts : BOOLEAN] :
        Len(BuildGapItems(b)) <= MaxGaps}

\* answers the user can send: none, one answer to a question that is about no
\* gap, or one answer (a real one or a "don't know") to the last gap's question
AnswerChoices(brief) ==
    LET gs == BuildGapItems(brief)
    IN {<<>>, <<[gap |-> "", answer |-> "valid"]>>}
       \cup {<<[gap |-> gs[Len(gs)].text, answer |-> a]>> : a \in {"valid", "unknown"}}

VARIABLES
    scene_brief, max_research_rounds, max_question_rounds,
    question_round, current_status, answer_memory, memory_pack, called,
    call, offline, user_answers,
    pc, round_index, extra_queries, stop_reason, working_payload, payload,
    mode, gaps, gap_index, gap_supported, gap_support_scores, retrieval_requests,
    loop_result, response,
    prepare_rounds, round_reports, plan_calls, fallback_searches, failure, hits,
    applied, argument, result,
    stream_task, streams, flows, started

configVars == <<scene_brief, max_research_rounds, max_question_rounds>>

sessionVars == <<question_round, current_status, answer_memory, memory_pack, called>>

callVars == <<call, offline, user_answers>>

loopVars == <<round_index, extra_queries, stop_reason, working_payload, payload>>

prepareVars == <<mode, gaps, gap_index, gap_supported, gap_support_scores, retrieval_requests>>

historyVars == <<prepare_rounds, round_reports, plan_calls, fallback_searches, failure, hits>>

\* a function applied on its own: its name, its arguments, what it returned
unitVars == <<applied, argument, result>>

\* _stream_task (0 for None), the writer streams by the number of the flow
\* that created them, the writing flows, and the order the streams started in
streamVars == <<stream_task, streams, flows, started>>

programVars == <<configVars, sessionVars, callVars, pc, loopVars, prepareVars,
                 loop_result, response, historyVars, streamVars>>

vars == <<configVars, sessionVars, callVars, pc, loopVars, prepareVars,
          loop_result, response, historyVars, unitVars, streamVars>>

EmptyMap == [t \in {} |-> 0]

\* the locals of _run_research_loop before its first round (lines 771-774)
ResetLoopLocals ==
    /\ round_index' = 0
    /\ extra_queries' = <<>>
    /\ stop_reason' = "unknown"
    /\ working_payload' = NoPayload
    /\ payload' = NoPayload

\* the locals of prepare outside a call of prepare
ResetPrepareLocals ==
    /\ mode' = "loop"
    /\ gaps' = <<>>
    /\ gap_index' = 0
    /\ gap_supported' = EmptyMap
    /\ gap_support_scores' = EmptyMap
    /\ retrieval_requests' = <<>>

\* the record of what one run of the loop did
ResetHistory ==
    /\ prepare_rounds' = <<>>
    /\ round_reports' = <<>>
    /\ plan_calls' = <<>>
    /\ fallback_searches' = 0
    /\ failure' = "none"
    /\ hits' = 0

\* no request is running: the session fields as __init__ leaves them
ProgramAtRest ==
    /\ question_round = 0
    /\ current_status = "IDLE"
    /\ answer_memory = {}
    /\ memory_pack = NoPayload
    /\ called = FALSE
    /\ call = "none"
    /\ offline = FALSE
    /\ user_answers = <<>>
    /\ pc = "idle"
    /\ round_index = 0
    /\ extra_queries = <<>>
    /\ stop_reason = "unknown"
    /\ working_payload = NoPayload
    /\ payload = NoPayload
    /\ mode = "loop"
    /\ gaps = <<>>
    /\ gap_index = 0
    /\ gap_supported = EmptyMap
    /\ gap_support_scores = EmptyMap
    /\ retrieval_requests = <<>>
    /\ loop_result = NoPayload
    /\ response = NoResponse
    /\ prepare_rounds = <<>>
    /\ round_reports = <<>>
    /\ plan_calls = <<>>
    /\ fallback_searches = 0
    /\ failure = "none"
    /\ hits = 0
    /\ stream_task = 0
    /\ streams = [f \in 1..MaxFlows |-> "none"]
    /\ flows = [f \in 1..MaxFlows |-> [pc |-> "none", result |-> "none"]]
    /\ started = <<>>

Init ==
    /\ scene_brief \in Briefs
    /\ max_research_rounds \in 0..MaxBoundRounds
    /\ max_question_rounds \in 1..MaxBoundQuestionRounds
    /\ ProgramAtRest
    /\ applied = "none"
    /\ argument = <<>>
    /\ result = <<>>

\* the state a request starts its research loop in
StartLoop(kind, off, answers) ==
    /\ call' = kind
    /\ offline' = off
    /\ user_answers' = answers
    /\ called' = TRUE
    /\ pc' = "initial_plan"
    /\ loop_result' = NoPayload
    /\ response' = NoResponse
    /\ ResetLoopLocals
    /\ ResetPrepareLocals
    /\ ResetHistory
    /\ UNCHANGED <<configVars, unitVars, streamVars, answer_memory, memory_pack>>

\* start_session up to the research loop: the counters are reset
StartSession ==
    /\ pc = "idle"
    /\ ~called
    /\ question_round' = 0
    /\ current_status' = "GENERATING_BRIEF"
    /\ StartLoop("start", FALSE, <<>>)

\* start_session when the archivist cannot produce a scene brief
StartSessionBriefFails ==
    /\ pc = "idle"
    /\ ~called
    /\ question_round' = 0
    /\ current_status' = "ERROR"
    /\ called' = TRUE
    /\ call' = "start"
    /\ offline' = FALSE
    /\ user_answers' = <<>>
    /\ loop_result' = NoPayload
    /\ response' = [status |-> "ERROR", questions |-> <<>>, stop |-> "absent"]
    /\ ResetLoopLocals
    /\ ResetPrepareLocals
    /\ ResetHistory
    /\ UNCHANGED <<configVars, unitVars, streamVars, answer_memory, memory_pack, pc>>

\* answer_questions up to the research loop
AnswerQuestions ==
    /\ pc = "idle"
    /\ ~called
    /\ \E answers \in AnswerChoices(scene_brief) :
         StartLoop("answer", FALSE, answers)
    /\ UNCHANGED <<question_round, current_status>>

\* run_research_only up to the research loop, online or offline
RunResearchOnly ==
    /\ pc = "idle"
    /\ ~called
    /\ question_round' = 0
    /\ UNCHANGED current_status
    /\ \E off \in BOOLEAN : StartLoop("research", off, <<>>)

\* ------------------------------------------------------- the research loop
\* lines 811-845, online: the initial plan is requested from the planner
InitialPlanOnline ==
    /\ pc = "initial_plan"
    /\ ~offline
    /\ \E reply \in PlanReplies :
         extra_queries' = StripNonBlank(GenerateResearchPlan(BuildGapItems(scene_brief), reply))
    /\ plan_calls' = Append(plan_calls, 0)
    /\ round_index' = FirstRound(max_research_rounds)
    /\ pc' = "round_top"
    /\ UNCHANGED <<configVars, unitVars, streamVars, sessionVars, callVars, stop_reason, working_payload, payload,
                   prepareVars, loop_result, response,
                   prepare_rounds, round_reports, fallback_searches, failure, hits>>

\* lines 844-845: a failing initial plan request is logged and swallowed
InitialPlanRaises ==
    /\ pc = "initial_plan"
    /\ ~offline
    /\ plan_calls' = Append(plan_calls, 0)
    /\ round_index' = FirstRound(max_research_rounds)
    /\ pc' = "round_top"
    /\ UNCHANGED <<configVars, unitVars, streamVars, sessionVars, callVars, extra_queries, stop_reason,
                   working_payload, payload, prepareVars, loop_result, response,
                   prepare_rounds, round_reports, fallback_searches, failure, hits>>

\* lines 813-827, offline: the plan is taken from the gaps, no planner call
InitialPlanOffline ==
    /\ pc = "initial_plan"
    /\ offline
    /\ extra_queries' = OfflinePlanQueries(BuildGapItems(scene_brief))
    /\ round_index' = FirstRound(max_research_rounds)
    /\ pc' = "round_top"
    /\ UNCHANGED <<configVars, unitVars, streamVars, sessionVars, callVars, stop_reason, working_payload, payload,
                   prepareVars, loop_result, response, historyVars>>

\* the entry of prepare: gaps are rebuilt, the side maps start empty
EnterPrepare(extra, how) ==
    /\ mode' = how
    /\ gaps' = PrepareGaps(scene_brief, extra)
    /\ gap_index' = 1
    /\ gap_supported' = EmptyMap
    /\ gap_support_scores' = EmptyMap
    /\ retrieval_requests' = <<>>

\* lines 847-870: one more round, prepare is called with this round's index
BeginRound ==
    /\ pc = "round_top"
    /\ round_index \in RoundRange(max_research_rounds)
    /\ prepare_rounds' = Append(prepare_rounds, round_index)
    /\ EnterPrepare(MergedExtraQueries(extra_queries, RetrievalSeeds(scene_brief)), "loop")
    /\ pc' = "retrieve"
    /\ UNCHANGED <<configVars, unitVars, streamVars, sessionVars, callVars, loopVars, loop_result, response,
                   round_reports, plan_calls, fallback_searches, failure, hits>>

\* gaps already answered in this call, or in memory when the call has no answers
AnsweredNow ==
    AnsweredGapTexts(gaps, user_answers)
    \cup (IF user_answers = <<>>
          THEN AnsweredGapTextsFromMemory(gaps, LoadChapterAnswerMemoryItems(answer_memory))
          ELSE {})

SkipsRetrieval(gap) ==
    /\ gap.text # ""
    /\ gap.text \in AnsweredNow
    /\ gap.kind = "character_change"

SetMap(m, k, v) == [t \in DOMAIN m \cup {k} |-> IF t = k THEN v ELSE m[t]]

\* working_memory_service.py lines 301-316: an answered character gap is not searched
SkipAnsweredGap ==
    /\ pc = "retrieve"
    /\ gap_index <= Len(gaps)
    /\ gaps[gap_index].queries # <<>>
    /\ SkipsRetrieval(gaps[gap_index])
    /\ gap_supported' = SetMap(gap_supported, gaps[gap_index].text, TRUE)
    /\ gap_support_scores' = SetMap(gap_support_scores, gaps[gap_index].text,
                                    MIN_GAP_SUPPORT_SCORE + ANSWERED_SKIP_BONUS)
    /\ retrieval_requests' = Append(retrieval_requests,
            [gap |-> gaps[gap_index].text, count |-> 0, skipped |-> TRUE])
    /\ gap_index' = gap_index + 1
    /\ UNCHANGED <<configVars, unitVars, streamVars, sessionVars, callVars, pc, loopVars, mode, gaps,
                   loop_result, response, historyVars>>

\* working_memory_service.py lines 317-358: the gap is searched and scored
SearchGap ==
    /\ pc = "retrieve"
    /\ gap_index <= Len(gaps)
    /\ gaps[gap_index].queries # <<>>
    /\ ~SkipsRetrieval(gaps[gap_index])
    /\ \E items \in SearchResults(gaps[gap_index]) :
         LET gap == gaps[gap_index]
             score == GapSupportScore(gap, items)
         IN /\ retrieval_requests' = Append(retrieval_requests,
                    [gap |-> gap.text, count |-> Len(items), skipped |-> FALSE])
            /\ gap_support_scores' =
                    IF gap.text # "" THEN SetMap(gap_support_scores, gap.text, score)
                    ELSE gap_support_scores
            /\ gap_supported' =
                    IF gap.text # "" THEN SetMap(gap_supported, gap.text, IsSupportedScore(score))
                    ELSE gap_supported
    /\ gap_index' = gap_index + 1
    /\ UNCHANGED <<configVars, unitVars, streamVars, sessionVars, callVars, pc, loopVars, mode, gaps,
                   loop_result, response, historyVars>>

\* line 324: evidence_service.search raises; nothing in prepare or in the loop
\* catches it, so the exception unwinds prepare and, in the loop, the loop
SearchRaises ==
    /\ pc = "retrieve"
    /\ gap_index <= Len(gaps)
    /\ gaps[gap_index].queries # <<>>
    /\ ~SkipsRetrieval(gaps[gap_index])
    /\ failure' = "search"
    /\ pc' = IF mode = "loop" THEN "loop_raised" ELSE "direct_raised"
    /\ ResetLoopLocals
    /\ ResetPrepareLocals
    /\ UNCHANGED <<configVars, unitVars, streamVars, sessionVars, callVars, loop_result, response,
                   prepare_rounds, round_reports, plan_calls, fallback_searches, hits>>


\* working_memory_service.py lines 401-460: what prepare returns
BuildPayload(gs, supported, scores, answers, brief) ==
    LET focus_terms == BuildFocusTerms(brief)
        unknown == UnknownGapTexts(gs, answers)
        unresolved == SelectUnresolvedGaps(gs, supported, scores, focus_terms, FALSE)
    IN [present |-> TRUE,
        unresolved_gaps |-> unresolved,
        questions |-> BuildQuestions(unresolved, unknown),
        sufficiency_report |-> BuildSufficiencyReport(gs, supported, scores, focus_terms, unknown),
        research_stop_reason |-> "absent"]

\* lines 363-367: the goal fallback search is due when no request was recorded
NeedsGoalFallback(requests, brief) == requests = <<>> /\ brief.goal # ""

RECURSIVE RequestHits(_)
\* orchestrator.py lines 913-920: items returned by the round's searches
RequestHits(requests) ==
    IF requests = <<>> THEN 0
    ELSE (IF Head(requests).skipped THEN 0 ELSE Head(requests).count)
         + RequestHits(Tail(requests))

\* working_memory_service.py lines 360-460: after the last gap, prepare returns
FinishPrepare ==
    /\ pc = "retrieve"
    /\ gap_index > Len(gaps)
    /\ \E items \in (IF NeedsGoalFallback(retrieval_requests, scene_brief)
                     THEN SearchResults(GoalFallbackGap(scene_brief)) ELSE {<<>>}) :
         hits' = RequestHits(
            IF NeedsGoalFallback(retrieval_requests, scene_brief)
            THEN <<[gap |-> "goal_fallback", count |-> Len(items), skipped |-> FALSE]>>
            ELSE retrieval_requests)
    /\ payload' = BuildPayload(gaps, gap_supported, gap_support_scores,
                               user_answers, scene_brief)
    /\ fallback_searches' = IF NeedsGoalFallback(retrieval_requests, scene_brief)
                            THEN fallback_searches + 1 ELSE fallback_searches
    /\ pc' = IF mode = "loop" THEN "self_check" ELSE "direct_done"
    /\ ResetPrepareLocals
    /\ UNCHANGED <<configVars, unitVars, streamVars, sessionVars, callVars, round_index, extra_queries,
                   stop_reason, working_payload, loop_result, response,
                   prepare_rounds, round_reports, plan_calls, failure>>

\* a self check that ignores the report
ReportNeverSufficient(p) == FALSE

\* report.get("sufficient") is True
ReportSufficient(p) == p.sufficiency_report.sufficient

\* a self check without the offline branch
SelfCheckStopOnline(p, r, max_rounds, off) ==
    IF ~p.present THEN "empty_payload"
    ELSE IF ReportSufficient(p) THEN "sufficient"
    ELSE IF AtRoundBound(r, max_rounds) THEN "max_rounds"
    ELSE "continue"

\* lines 871-985: the verdict of the self check, "continue" when the loop goes on
SelfCheckStop(p, r, max_rounds, off) ==
    IF ~p.present THEN "empty_payload"
    ELSE IF ReportSufficient(p) THEN "sufficient"
    ELSE IF AtRoundBound(r, max_rounds) THEN "max_rounds"
    ELSE IF off THEN "offline_stop"
    ELSE "continue"

\* lines 871-985: the round's payload is judged and becomes the working payload
SelfCheck ==
    /\ pc = "self_check"
    /\ LET verdict == SelfCheckStop(payload, round_index, max_research_rounds, offline)
       IN /\ working_payload' = IF payload.present THEN payload ELSE working_payload
          /\ round_reports' = IF payload.present
                              THEN Append(round_reports, payload.sufficiency_report.sufficient)
                              ELSE round_reports
          /\ stop_reason' = IF verdict = "continue" THEN stop_reason ELSE verdict
          /\ pc' = IF verdict = "continue" THEN "plan" ELSE "loop_end"
    /\ payload' = NoPayload
    /\ UNCHANGED <<configVars, unitVars, streamVars, sessionVars, callVars, round_index, extra_queries,
                   prepareVars, loop_result, response,
                   prepare_rounds, plan_calls, fallback_searches, failure, hits>>

\* lines 987-1010: the planner is asked for the next round's queries
PlanNextRound ==
    /\ pc = "plan"
    /\ \E reply \in PlanReplies :
         LET queries == StripNonBlank(GenerateResearchPlan(working_payload.unresolved_gaps, reply))
         IN /\ extra_queries' = queries
            /\ stop_reason' = IF queries = <<>> THEN "no_queries" ELSE stop_reason
            /\ pc' = IF queries = <<>> THEN "loop_end" ELSE "round_top"
            /\ round_index' = IF queries = <<>> THEN round_index ELSE round_index + 1
    /\ plan_calls' = Append(plan_calls, round_index)
    /\ UNCHANGED <<configVars, unitVars, streamVars, sessionVars, callVars, working_payload, payload,
                   prepareVars, loop_result, response,
                   prepare_rounds, round_reports, fallback_searches, failure, hits>>

\* line 987: the plan request raises; the call is not guarded, so the
\* exception unwinds the research loop
PlanRaises ==
    /\ pc = "plan"
    /\ plan_calls' = Append(plan_calls, round_index)
    /\ failure' = "planner"
    /\ pc' = "loop_raised"
    /\ ResetLoopLocals
    /\ ResetPrepareLocals
    /\ UNCHANGED <<configVars, unitVars, streamVars, sessionVars, callVars, loop_result, response,
                   prepare_rounds, round_reports, fallback_searches, hits>>

\* line 847: the range is used up without a break
LoopExhausted ==
    /\ pc = "round_top"
    /\ round_index \notin RoundRange(max_research_rounds)
    /\ pc' = "loop_end"
    /\ UNCHANGED <<configVars, unitVars, streamVars, sessionVars, callVars, loopVars, prepareVars,
                   loop_result, response, historyVars>>

\* a loop that clears the questions whatever the stop reason
KeepsQuestionsNever(stop, needs_user_input) == FALSE

\* lines 1015-1018: questions survive only the stop at the round bound
KeepsQuestions(stop, needs_user_input) == stop = "max_rounds" /\ needs_user_input

\* lines 1012-1035: the payload the loop returns
FinalizePayload(wp, stop) ==
    IF ~wp.present THEN NoPayload
    ELSE [wp EXCEPT
            !.questions = IF KeepsQuestions(stop, wp.sufficiency_report.needs_user_input)
                          THEN @ ELSE <<>>,
            !.research_stop_reason = stop]

\* lines 1012-1035: the loop returns
LoopEnd ==
    /\ pc = "loop_end"
    /\ loop_result' = FinalizePayload(working_payload, stop_reason)
    /\ pc' = "loop_returned"
    /\ ResetLoopLocals
    /\ ResetPrepareLocals
    /\ UNCHANGED <<configVars, unitVars, streamVars, sessionVars, callVars, response, historyVars>>

\* ------------------------------------------- _build_working_memory_payload
LoopGaveNothing ==
    \/ pc = "loop_raised"
    \/ (pc = "loop_returned" /\ ~loop_result.present)

\* _context_mixin.py lines 248-261: the loop raised or returned nothing, so
\* prepare is called directly, without extra queries and without a round
DirectPrepare ==
    /\ call \in {"start", "answer"}
    /\ LoopGaveNothing
    /\ EnterPrepare(<<>>, "direct")
    /\ pc' = "retrieve"
    /\ ResetHistory
    /\ UNCHANGED <<configVars, unitVars, streamVars, sessionVars, callVars, loopVars, loop_result, response>>

\* the payload _build_working_memory_payload hands back
BuiltPayload ==
    IF pc = "loop_returned" THEN loop_result
    ELSE IF pc = "direct_done" THEN payload
    ELSE NoPayload

BuildIsOver ==
    /\ call \in {"start", "answer"}
    /\ \/ (pc = "loop_returned" /\ loop_result.present)
       \/ pc \in {"direct_done", "direct_raised"}

\* ------------------------------------------- _prepare_memory_pack_payload
\* lines 352-362: the built payload is saved as the chapter's memory pack
DeliverSaved ==
    /\ BuildIsOver
    /\ BuiltPayload.present
    /\ memory_pack' = BuiltPayload
    /\ payload' = BuiltPayload
    /\ pc' = "decide"
    /\ ResetPrepareLocals
    /\ ResetHistory
    /\ UNCHANGED <<configVars, unitVars, streamVars, question_round, current_status, answer_memory, called,
                   callVars, round_index, extra_queries, stop_reason, working_payload,
                   loop_result, response>>

\* lines 319-324 and 352-362: the write fails, the built payload is still returned
DeliverSaveFails ==
    /\ BuildIsOver
    /\ BuiltPayload.present
    /\ payload' = BuiltPayload
    /\ pc' = "decide"
    /\ ResetPrepareLocals
    /\ ResetHistory
    /\ UNCHANGED <<configVars, unitVars, streamVars, sessionVars, callVars, round_index, extra_queries,
                   stop_reason, working_payload, loop_result, response>>

\* lines 364-371: nothing was built, the stored pack's payload is reused if any
DeliverFromPack ==
    /\ BuildIsOver
    /\ ~BuiltPayload.present
    /\ payload' = memory_pack
    /\ pc' = "decide"
    /\ ResetPrepareLocals
    /\ ResetHistory
    /\ UNCHANGED <<configVars, unitVars, streamVars, sessionVars, callVars, round_index, extra_queries,
                   stop_reason, working_payload, loop_result, response>>


\* ---------------------------------------------------------- start_session
\* questions WriterAgent.generate_questions returns: the model's, or the defaults
GeneratedQuestions == <<[type |-> "plot_point", gap |-> "", key |-> <<"", "">>]>>

\* question_round < max_question_rounds
\* a test that still lets a question through at the bound
MayAskAtBound(round, max_rounds) == round <= max_rounds

MayAsk(round, max_rounds) == round < max_rounds

\* the stop reason of the research loop this call ran ("absent" if it gave nothing)
LoopStopReason == loop_result.research_stop_reason

\* the call returns: its frames are gone, the result and the status remain
Respond(status, questions) ==
    /\ response' = [status |-> status, questions |-> questions, stop |-> LoopStopReason]
    /\ current_status' = status
    /\ pc' = "idle"
    /\ loop_result' = NoPayload
    /\ ResetLoopLocals
    /\ ResetPrepareLocals
    /\ ResetHistory

\* orchestrator.py lines 203-250: ask the user, or go on to the draft
DecideStart ==
    /\ pc = "decide"
    /\ call = "start"
    /\ LET questions == IF payload.questions # <<>> THEN payload.questions
                        ELSE GeneratedQuestions
       IN IF questions # <<>> /\ MayAsk(question_round, max_question_rounds)
          THEN /\ question_round' = question_round + 1
               /\ Respond("WAITING_USER_INPUT", questions)
          ELSE /\ question_round' = question_round
               /\ Respond("WRITING_DRAFT", <<>>)
    /\ UNCHANGED <<configVars, unitVars, streamVars, answer_memory, memory_pack, called, callVars>>

\* lines 205-209 and 252-253: generate_questions raises, the session reports an error
DecideStartQuestionsRaise ==
    /\ pc = "decide"
    /\ call = "start"
    /\ payload.questions = <<>>
    /\ Respond("ERROR", <<>>)
    /\ UNCHANGED <<configVars, unitVars, streamVars, question_round, answer_memory, memory_pack, called, callVars>>

\* -------------------------------------------------------- answer_questions
RECURSIVE NotAnswered(_, _)
\* lines 410-428: follow-up questions whose key or text was answered are dropped
NotAnswered(questions, answered_gaps) ==
    IF questions = <<>> THEN <<>>
    ELSE IF Head(questions).gap \in answered_gaps
         THEN NotAnswered(Tail(questions), answered_gaps)
         ELSE <<Head(questions)>> \o NotAnswered(Tail(questions), answered_gaps)

FollowupQuestions(questions, answers) ==
    NotAnswered(questions, {answers[j].gap : j \in 1..Len(answers)} \ {""})

\* _persist_answer_memory: the answers' memory items, user_answer and
\* user_unknown alike, are added to the chapter's memory index (the session
\* keeps no clock: its items are numbered under second 0)
PersistAnswerMemory(memory, answers) == memory \cup Range(AnswerToEvidenceItems(answers, 0))

\* orchestrator.py lines 405-453: ask follow-ups, or go on to the draft
DecideAnswer ==
    /\ pc = "decide"
    /\ call = "answer"
    /\ answer_memory' = PersistAnswerMemory(answer_memory, user_answers)
    /\ LET followup == FollowupQuestions(payload.questions, user_answers)
       IN IF followup # <<>> /\ user_answers # <<>>
             /\ MayAsk(question_round, max_question_rounds)
          THEN /\ question_round' = question_round + 1
               /\ Respond("WAITING_USER_INPUT", followup)
          ELSE /\ question_round' = question_round
               /\ Respond("WRITING_DRAFT", <<>>)
    /\ UNCHANGED <<configVars, unitVars, streamVars, memory_pack, called, callVars>>

\* -------------------------------------------------------- run_research_only
\* lines 329-347: the loop's payload is saved and reported
ResearchCompleted ==
    /\ pc = "loop_returned"
    /\ call = "research"
    /\ \E saved \in BOOLEAN :
         memory_pack' = IF saved /\ loop_result.present THEN loop_result ELSE memory_pack
    /\ response' = [status |-> "research_completed", questions |-> loop_result.questions,
                    stop |-> LoopStopReason]
    /\ pc' = "idle"
    /\ loop_result' = NoPayload
    /\ ResetLoopLocals
    /\ ResetPrepareLocals
    /\ ResetHistory
    /\ UNCHANGED <<configVars, unitVars, streamVars, question_round, current_status, answer_memory, called,
                   callVars>>

\* lines 348-349: an exception out of the loop becomes an error result
ResearchRaised ==
    /\ pc = "loop_raised"
    /\ call = "research"
    /\ Respond("ERROR", <<>>)
    /\ UNCHANGED <<configVars, unitVars, streamVars, question_round, answer_memory, memory_pack, called, callVars>>

Next ==
    \/ StartSession
    \/ StartSessionBriefFails
    \/ AnswerQuestions
    \/ RunResearchOnly
    \/ InitialPlanOnline
    \/ InitialPlanRaises
    \/ InitialPlanOffline
    \/ BeginRound
    \/ SkipAnsweredGap
    \/ SearchGap
    \/ SearchRaises
    \/ FinishPrepare
    \/ SelfCheck
    \/ PlanNextRound
    \/ PlanRaises
    \/ LoopExhausted
    \/ LoopEnd
    \/ DirectPrepare
    \/ DeliverSaved
    \/ DeliverSaveFails
    \/ DeliverFromPack
    \/ DecideStart
    \/ DecideStartQuestionsRaise
    \/ DecideAnswer
    \/ ResearchCompleted
    \/ ResearchRaised

Spec == Init /\ [][Next]_vars

\* ------------------------------------------------- sessions of one chapter
\* the caller has taken the response and the orchestrator, kept per project,
\* is free for the next request; the round counter, the status, the chapter's
\* answer memory and its memory pack stay as the request left them
NextRequest ==
    /\ pc = "idle"
    /\ called
    /\ called' = FALSE
    /\ response' = NoResponse
    /\ call' = "none"
    /\ offline' = FALSE
    /\ user_answers' = <<>>
    /\ UNCHANGED <<configVars, unitVars, streamVars, question_round, current_status, answer_memory,
                   memory_pack, pc, loopVars, prepareVars, loop_result, historyVars>>

\* briefs of the chapter the sessions are about
SessionBriefs ==
    {b \in Briefs : b.goal = "" /\ Len(b.characters) <= 1 /\ b.timeline /\ b.world /\ b.facts}

InitSessions ==
    /\ scene_brief \in SessionBriefs
    /\ max_research_rounds \in 0..MaxBoundRounds
    /\ max_question_rounds \in 1..MaxBoundQuestionRounds
    /\ ProgramAtRest
    /\ applied = "none"
    /\ argument = <<>>
    /\ result = <<>>

NextSessions == Next \/ NextRequest

SpecSessions == InitSessions /\ [][NextSessions]_vars

\* ------------------------------------------- writing flows and their streams
\* what the stream actions leave alone
beyondStreams == <<configVars, question_round, answer_memory, memory_pack, called, callVars,
                   pc, loopVars, prepareVars, loop_result, response, historyVars, unitVars>>

\* Task.cancel(): a task that has not finished is asked to stop, a finished
\* one is left as it is; 0 stands for no task
CancelTask(tasks, t) ==
    IF t # 0 /\ tasks[t] = "running" THEN [tasks EXCEPT ![t] = "cancelling"] ELSE tasks

\* _run_writing_flow line 643: the status is set, and the flow is suspended
EnterWritingFlow(f) ==
    /\ flows[f].pc = "none"
    /\ flows' = [flows EXCEPT ![f].pc = "status_updated"]
    /\ current_status' = "WRITING_DRAFT"
    /\ UNCHANGED <<beyondStreams, stream_task, streams, started>>

\* lines 648-661, which run without a suspension: the task _stream_task
\* refers to is cancelled, the flow's own stream is created and stored, and
\* the flow waits for it
StartStream(f) ==
    /\ flows[f].pc = "status_updated"
    /\ streams' = [CancelTask(streams, stream_task) EXCEPT ![f] = "running"]
    /\ stream_task' = f
    /\ started' = Append(started, f)
    /\ flows' = [flows EXCEPT ![f].pc = "awaiting"]
    /\ UNCHANGED <<beyondStreams, current_status>>

\* _stream_writer_output lines 1069-1130 runs to its end: the draft is saved,
\* or the stream raises (an empty draft, a writer error). Line 1085 looks at
\* the task _stream_task refers to, which is never a cancelled one here:
\* both places that cancel a task replace the reference at once
StreamCompletes(f) ==
    /\ streams[f] = "running"
    /\ \E outcome \in {"finished", "failed"} : streams' = [streams EXCEPT ![f] = outcome]
    /\ UNCHANGED <<beyondStreams, current_status, stream_task, flows, started>>

\* a stream that was asked to stop gets CancelledError at its next suspension
StreamIsCancelled(f) ==
    /\ streams[f] = "cancelling"
    /\ streams' = [streams EXCEPT ![f] = "cancelled"]
    /\ UNCHANGED <<beyondStreams, current_status, stream_task, flows, started>>

\* lines 661-710: the flow resumes when its stream is over. After a normal
\* end it clears _stream_task (line 662) and returns the draft, or an error
\* when no draft is found; after a cancellation or a failure it returns the
\* error of lines 663-666 and leaves _stream_task as it is
ResumeWritingFlow(f) ==
    /\ flows[f].pc = "awaiting"
    /\ streams[f] \in {"finished", "failed", "cancelled"}
    /\ \E outcome \in {"WAITING_FEEDBACK", "Draft generation failed"} :
         LET returned == IF streams[f] = "cancelled" THEN "Stream cancelled"
                         ELSE IF streams[f] = "failed" THEN "Draft generation failed"
                         ELSE outcome
         IN /\ flows' = [flows EXCEPT ![f] = [pc |-> "returned", result |-> returned]]
            /\ current_status' = IF returned = "WAITING_FEEDBACK" THEN "WAITING_FEEDBACK"
                                  ELSE "ERROR"
    /\ stream_task' = IF streams[f] = "finished" THEN 0 ELSE stream_task
    /\ UNCHANGED <<beyondStreams, streams, started>>

\* routers/session.py lines 290-314: the task _stream_task refers to is
\* cancelled, the reference cleared and the status set to IDLE
CancelSession ==
    /\ streams' = CancelTask(streams, stream_task)
    /\ stream_task' = 0
    /\ current_status' = "IDLE"
    /\ UNCHANGED <<beyondStreams, flows, started>>

\* one orchestrator, a few writing flows reaching it in any order, and cancel
\* requests at any time
InitStreams ==
    /\ scene_brief = [goal |-> "", characters |-> <<>>, timeline |-> TRUE,
                      world |-> TRUE, facts |-> TRUE]
    /\ max_research_rounds = 1
    /\ max_question_rounds = 1
    /\ ProgramAtRest
    /\ applied = "none"
    /\ argument = <<>>
    /\ result = <<>>

NextStreams ==
    \/ \E f \in 1..MaxFlows : EnterWritingFlow(f)
    \/ \E f \in 1..MaxFlows : StartStream(f)
    \/ \E f \in 1..MaxFlows : StreamCompletes(f)
    \/ \E f \in 1..MaxFlows : StreamIsCancelled(f)
    \/ \E f \in 1..MaxFlows : ResumeWritingFlow(f)
    \/ CancelSession

SpecStreams == InitStreams /\ [][NextStreams]_vars

StopReasons == {"sufficient", "max_rounds", "no_queries", "offline_stop", "empty_payload"}

TypeOK ==
    /\ pc \in {"idle", "initial_plan", "round_top", "retrieve", "self_check", "plan",
               "loop_end", "loop_returned", "loop_raised", "direct_done",
               "direct_raised", "decide"}
    /\ stop_reason \in StopReasons \cup {"unknown"}
    /\ question_round \in 0..max_question_rounds
    /\ failure \in {"none", "search", "planner"}

\* ------------------------------------ the service's functions on their own
\* build_gap_items with seed characters (lines 99-108: the seeds come first)
BuildGapItemsWith(brief, seed_characters) ==
    LET merged == IF seed_characters = <<>> THEN brief.characters
                  ELSE Dedup(StripNonBlank(seed_characters) \o brief.characters)
    IN BuildGapItems([brief EXCEPT !.characters = merged])

\* scores of the items a search can return
UnitItemScores == {20, 30, 38}

UnitBriefs ==
    {b \in [goal : {"", "goal_plain", "goal_time"},
            characters : {<<>>, <<"A">>, <<"A", "B">>},
            timeline : BOOLEAN, world : BOOLEAN, facts : BOOLEAN] :
        Len(BuildGapItems(b)) <= MaxUnitGaps}

\* prepare lines 253-460 on its own, for given search results
PrepareOutcome(brief, extra, found, force_minimum_questions) ==
    LET gs == PrepareGaps(brief, extra)
        \* the item list the search returns for gap i: found[i] is the item's
        \* score, 0 for none
        FoundItems(i) ==
            IF found[i] = 0 THEN <<>>
            ELSE <<[score |-> found[i], text |-> gs[i].queries[1]]>>
        \* lines 295-358 with no answered gap: every gap with queries is
        \* searched and scored
        scores ==
            [t \in {gs[i].text : i \in {j \in 1..Len(gs) : gs[j].queries # <<>>}} \ {""} |->
                LET i == CHOOSE j \in 1..Len(gs) : gs[j].text = t
                IN GapSupportScore(gs[i], FoundItems(i))]
        supported == [t \in DOMAIN scores |-> IsSupportedScore(scores[t])]
        focus_terms == BuildFocusTerms(brief)
        unresolved == SelectUnresolvedGaps(gs, supported, scores, focus_terms,
                                           force_minimum_questions)
    IN [gaps |-> gs,
        focus_terms |-> focus_terms,
        gap_support_scores |-> scores,
        gap_supported |-> supported,
        unresolved_gaps |-> unresolved,
        questions |-> BuildQuestions(unresolved, {}),
        sufficiency_report |->
            BuildSufficiencyReport(gs, supported, scores, focus_terms, {})]

\* a call of prepare: a brief, the extra queries, what the search finds for
\* each gap, and the minimum-question flag
IsPrepareCall(a) ==
    \E b \in UnitBriefs, e \in {<<>>, <<"qa">>}, m \in BOOLEAN :
        \E f \in [1..Len(PrepareGaps(b, e)) -> {0} \cup UnitItemScores] :
            a = [fn |-> "prepare", brief |-> b, extra_queries |-> e, found |-> f,
                 force_minimum_questions |-> m]

\* evidence items whose text holds the goal's term, the time term, or nothing
UnitItems ==
    {[score |-> sc, text |-> t] :
        sc \in UnitItemScores, t \in {"", "goal_plain", "q_time"}}

ApplyPrepare ==
    /\ applied = "none"
    /\ argument.fn = "prepare"
    /\ result' = PrepareOutcome(argument.brief, argument.extra_queries,
                                argument.found, argument.force_minimum_questions)
    /\ applied' = "prepare"
    /\ UNCHANGED <<programVars, argument>>

ApplyBuildGapItems ==
    /\ applied = "none"
    /\ argument.fn = "build_gap_items"
    /\ result' = BuildGapItemsWith(argument.brief, argument.seed_characters)
    /\ applied' = "build_gap_items"
    /\ UNCHANGED <<programVars, argument>>

ApplyGapSupportScore ==
    /\ applied = "none"
    /\ argument.fn = "_gap_support_score"
    /\ result' = GapSupportScore(argument.gap, argument.items)
    /\ applied' = "_gap_support_score"
    /\ UNCHANGED <<programVars, argument>>

\* _dedup_items: of items with the same id the first is kept
DedupItems(items) ==
    LET RECURSIVE Kept(_, _)
        Kept(rest, seen) ==
            IF rest = <<>> THEN <<>>
            ELSE IF Head(rest).id \in seen THEN Kept(Tail(rest), seen)
                 ELSE <<Head(rest)>> \o Kept(Tail(rest), seen \cup {Head(rest).id})
    IN Kept(items, {})

\* prepare lines 276-286 and 401-403: the items of the evidence pack are the
\* retrieved items, then the items made of this call's answers, then, in a
\* call without answers, the stored answers of the chapter
EvidencePackItems(retrieved, answers, stored, timestamp) ==
    LET RECURSIVE Listed(_)
        Listed(set) ==
            IF set = {} THEN <<>>
            ELSE LET it == CHOOSE x \in set : TRUE IN <<it>> \o Listed(set \ {it})
        persisted == IF answers = <<>> THEN Listed(LoadChapterAnswerMemoryItems(stored))
                     ELSE <<>>
    IN DedupItems(retrieved \o AnswerToEvidenceItems(answers, timestamp) \o persisted)

\* what the search returns for the gap in one round: nothing, or one item
RetrievedFor(gap_text, score) ==
    IF score = 0 THEN <<>>
    ELSE <<[id |-> <<-1, 1>>, type |-> "fact", score |-> score, gap |-> gap_text,
            kind |-> "retrieved"]>>

\* two successive rounds of prepare, the clock reading second `first` in the
\* one and second `second` in the other: rounds of one call, which both carry
\* the answers, or the round that carries them and a round of a later call
\* without answers, when the first round's items are the stored ones
ApplyEvidencePack ==
    /\ applied = "none"
    /\ argument.fn = "evidence_pack"
    /\ LET round == EvidencePackItems(<<>>, argument.answers, {}, argument.first)
           retrieved == RetrievedFor(argument.answers[1].gap, argument.found)
       IN result' =
            [round |-> round,
             next_round |->
                IF argument.same_call
                THEN EvidencePackItems(retrieved, argument.answers, {}, argument.second)
                ELSE EvidencePackItems(retrieved, <<>>, Range(round), argument.second)]
    /\ applied' = "evidence_pack"
    /\ UNCHANGED <<programVars, argument>>

\* ---------------------------------------------- the chapter's memory pack
\* no stored pack: read_pack gives None
NoPack == [present |-> FALSE, payload |-> NoPayload, card_snapshot |-> FALSE,
           chapter_digest |-> FALSE]

\* payloads a build can hand back: None, or what prepare returns for a brief
\* with one gap when the search finds nothing or a well-supported item
UnitPayloads ==
    {NoPayload} \cup
    {LET brief == [goal |-> "", characters |-> <<>>, timeline |-> TRUE, world |-> TRUE,
                   facts |-> TRUE]
     IN BuildPayload(BuildGapItems(brief), [t \in {"gap_who"} |-> IsSupportedScore(sc)],
                     [t \in {"gap_who"} |-> sc], <<>>, brief) : sc \in {0, 42}}

\* packs the store can hold for the chapter; a payload that is not present
\* stands for the empty dict saved when a digest is asked for and nothing was
\* built, which _extract_memory_pack_payload (lines 274-280) reads as None
StoredPacks ==
    {NoPack} \cup [present : {TRUE}, payload : UnitPayloads, card_snapshot : BOOLEAN,
                   chapter_digest : BOOLEAN]

\* _save_memory_pack (_context_mixin.py lines 282-324): the pack is built
\* around the payload and written; a failing write is logged and None returned
SaveMemoryPack(stored, working_memory_payload, cards, digest, write_ok) ==
    LET pack == [present |-> TRUE, payload |-> working_memory_payload,
                 card_snapshot |-> cards, chapter_digest |-> digest]
    IN [returned |-> IF write_ok THEN pack ELSE NoPack,
        stored |-> IF write_ok THEN pack ELSE stored,
        writes |-> 1,
        write_failed |-> ~write_ok]

\* ensure_memory_pack (lines 93-205) as one call: the pack stored before, the
\* force_refresh flag, whether a chapter text is passed, whether the chapter
\* has a draft, what the build hands back, whether cards are found for the
\* snapshot, whether writes succeed
ApplyEnsureMemoryPack ==
    /\ applied = "none"
    /\ argument.fn = "ensure_memory_pack"
    /\ LET a == argument
           \* lines 139-161: the stored pack is used, enriched in place
           with_digest == IF a.chapter_text_override
                          THEN [a.stored EXCEPT !.chapter_digest = TRUE] ELSE a.stored
           enriched == IF ~with_digest.card_snapshot
                       THEN [with_digest EXCEPT !.card_snapshot = a.cards] ELSE with_digest
           enrich_writes == (IF a.chapter_text_override THEN 1 ELSE 0)
                            + (IF ~with_digest.card_snapshot THEN 1 ELSE 0)
           from_store == [returned |-> enriched,
                          stored |-> IF enrich_writes > 0 /\ a.write_ok THEN enriched
                                     ELSE a.stored,
                          writes |-> enrich_writes,
                          write_failed |-> enrich_writes > 0 /\ ~a.write_ok,
                          researched |-> FALSE]
           \* lines 163-205: the payload is built and saved
           nothing == [returned |-> NoPack, stored |-> a.stored, writes |-> 0,
                       write_failed |-> FALSE, researched |-> TRUE]
           saved == SaveMemoryPack(a.stored, a.built, a.cards,
                                   a.chapter_text_override \/ a.draft, a.write_ok)
                    @@ [researched |-> TRUE]
       IN result' =
            IF ~a.force_refresh /\ a.stored.payload.present THEN from_store
            ELSE IF a.built.present THEN saved
            ELSE IF ~a.force_refresh /\ ~a.chapter_text_override THEN nothing
            ELSE IF a.stored.payload.present
                 THEN [returned |-> a.stored, stored |-> a.stored, writes |-> 0,
                       write_failed |-> FALSE, researched |-> TRUE]
            ELSE IF ~a.chapter_text_override THEN nothing
            ELSE saved
    /\ applied' = "ensure_memory_pack"
    /\ UNCHANGED <<programVars, argument>>

\* _prepare_memory_pack_payload (lines 326-371) as one call
ApplyPrepareMemoryPackPayload ==
    /\ applied = "none"
    /\ argument.fn = "_prepare_memory_pack_payload"
    /\ LET a == argument
           saved == SaveMemoryPack(a.stored, a.built, a.cards, FALSE, a.write_ok)
       IN result' =
            IF ~a.force_refresh /\ a.stored.payload.present
            THEN [returned |-> a.stored.payload, stored |-> a.stored, writes |-> 0,
                  write_failed |-> FALSE, researched |-> FALSE]
            ELSE IF a.built.present
            THEN [saved EXCEPT !.returned = a.built] @@ [researched |-> TRUE]
            ELSE [returned |-> IF a.force_refresh THEN a.stored.payload ELSE NoPayload,
                  stored |-> a.stored, writes |-> 0, write_failed |-> FALSE,
                  researched |-> TRUE]
    /\ applied' = "_prepare_memory_pack_payload"
    /\ UNCHANGED <<programVars, argument>>

\* run_research_only, orchestrator.py lines 321-337: the loop's payload, when
\* there is one, is saved whatever the store holds
ApplySaveResearch ==
    /\ applied = "none"
    /\ argument.fn = "run_research_only"
    /\ LET a == argument
       IN result' =
            IF a.built.present
            THEN [SaveMemoryPack(a.stored, a.built, a.cards, FALSE, a.write_ok)
                    EXCEPT !.returned = a.built] @@ [researched |-> TRUE]
            ELSE [returned |-> NoPayload, stored |-> a.stored, writes |-> 0,
                  write_failed |-> FALSE, researched |-> TRUE]
    /\ applied' = "run_research_only"
    /\ UNCHANGED <<programVars, argument>>

\* a call of one of the three writers of the memory pack
IsPackCall(a) ==
    \E st \in StoredPacks, b \in UnitPayloads, c \in BOOLEAN, w \in BOOLEAN :
        \/ \E f \in BOOLEAN, o \in BOOLEAN, d \in BOOLEAN :
               a = [fn |-> "ensure_memory_pack", stored |-> st, force_refresh |-> f,
                    chapter_text_override |-> o, draft |-> d, built |-> b, cards |-> c,
                    write_ok |-> w]
        \/ \E f \in BOOLEAN :
               a = [fn |-> "_prepare_memory_pack_payload", stored |-> st, force_refresh |-> f,
                    built |-> b, cards |-> c, write_ok |-> w]
        \/ a = [fn |-> "run_research_only", stored |-> st, built |-> b, cards |-> c,
                write_ok |-> w]

InitService ==
    /\ scene_brief = [goal |-> "", characters |-> <<>>, timeline |-> TRUE,
                      world |-> TRUE, facts |-> TRUE]
    /\ max_research_rounds = 1
    /\ max_question_rounds = 1
    /\ ProgramAtRest
    /\ applied = "none"
    /\ \/ IsPrepareCall(argument)
       \/ \E b \in UnitBriefs, sc \in {<<>>, <<"B">>, <<"B", "A">>} :
              argument = [fn |-> "build_gap_items", brief |-> b, seed_characters |-> sc]
       \/ \E qs \in {<<>>, <<"goal_plain">>, <<"", "goal_time">>, <<"q_who", "q_time">>},
              l \in ListsUpTo(UnitItems, MaxItems) :
              argument = [fn |-> "_gap_support_score",
                          gap |-> [kind |-> "plot_point", text |-> "gap_plot",
                                   queries |-> qs, ask_user |-> TRUE],
                          items |-> l]
       \/ \E a \in {"valid", "unknown"}, t1 \in 0..MaxClock, t2 \in 0..MaxClock,
              f \in {0} \cup UnitItemScores, same \in BOOLEAN :
              /\ t1 <= t2
              /\ argument = [fn |-> "evidence_pack",
                             answers |-> <<[gap |-> "gap_plot", answer |-> a]>>,
                             first |-> t1, second |-> t2, found |-> f, same_call |-> same]
       \/ IsPackCall(argument)
    /\ result = <<>>

NextService ==
    \/ ApplyPrepare
    \/ ApplyBuildGapItems
    \/ ApplyGapSupportScore
    \/ ApplyEvidencePack
    \/ ApplyEnsureMemoryPack
    \/ ApplyPrepareMemoryPackPayload
    \/ ApplySaveResearch

SpecService == InitService /\ [][NextService]_vars

\* ------------------------------------------------------- the compiler's texts
\* a text given to the compiler is a sequence of characters
Whitespace == {" "}

\* the characters _normalize_for_dedup removes (line 863)
DedupPunctuation ==
    {" ", "-", ",", ";", ":", "(", ")", "[", "]", "{", "}", "<", ">", "'", "\""}

\* str.lower() on one character
Lower(c) ==
    CASE c = "A" -> "a"
      [] c = "B" -> "b"
      [] c = "R" -> "r"
      [] OTHER -> c

\* str.strip() on a sequence of characters
StripText(t) ==
    LET RECURSIVE DropLeading(_), DropTrailing(_)
        \* str.lstrip()
        DropLeading(s) ==
            IF s = <<>> THEN <<>>
            ELSE IF Head(s) \in Whitespace THEN DropLeading(Tail(s)) ELSE s
        \* str.rstrip()
        DropTrailing(s) ==
            IF s = <<>> THEN <<>>
            ELSE IF s[Len(s)] \in Whitespace
                 THEN DropTrailing(SubSeq(s, 1, Len(s) - 1)) ELSE s
    IN DropTrailing(DropLeading(t))

RECURSIVE CollapseRuns(_)
\* re.sub(r"\.{3,}", ".", text) and re.sub(r"\s+", " ", text) in one pass:
\* three or more dots become one dot, a run of whitespace becomes one space
CollapseRuns(t) ==
    LET RECURSIVE DropRun(_, _)
        \* the text after its leading run of the given characters
        DropRun(s, chars) ==
            IF s = <<>> THEN <<>>
            ELSE IF Head(s) \in chars THEN DropRun(Tail(s), chars) ELSE s
    IN IF t = <<>> THEN <<>>
       ELSE IF Head(t) \in Whitespace
            THEN <<" ">> \o CollapseRuns(DropRun(t, Whitespace))
       ELSE IF Len(t) >= 3 /\ SubSeq(t, 1, 3) = <<".", ".", ".">>
            THEN <<".">> \o CollapseRuns(DropRun(t, {"."}))
       ELSE <<Head(t)>> \o CollapseRuns(Tail(t))

\* _clean_text_for_memory on texts without annotation markers and markdown
\* emphasis: strip, collapse dots and whitespace (lines 841-842), strip again
CleanTextForMemory(t) == StripText(CollapseRuns(StripText(t)))

RECURSIVE RemovePunctuation(_)
\* line 863: blanks and punctuation removed, lower case
RemovePunctuation(t) ==
    IF t = <<>> THEN <<>>
    ELSE IF Head(t) \in DedupPunctuation THEN RemovePunctuation(Tail(t))
         ELSE <<Lower(Head(t))>> \o RemovePunctuation(Tail(t))

\* _normalize_for_dedup
NormalizeForDedup(t) == RemovePunctuation(CleanTextForMemory(t))

\* Python's "a in b" on strings
IsSubstring(a, b) ==
    \E i \in 0..(Len(b) - Len(a)) : SubSeq(b, i + 1, i + Len(a)) = a

\* the first kept line whose normal form contains the new one or is contained
\* in it (lines 879-883), 0 if there is none
DuplicateIndex(norm, kept_norms) ==
    LET related == {i \in 1..Len(kept_norms) :
                       IsSubstring(norm, kept_norms[i]) \/ IsSubstring(kept_norms[i], norm)}
    IN IF related = {} THEN 0 ELSE CHOOSE i \in related : \A j \in related : i <= j

RECURSIVE DedupLines(_, _, _)
\* the loop of _dedup_material_lines over the remaining lines
DedupLines(lines, kept, kept_norms) ==
    IF lines = <<>> THEN kept
    ELSE LET line == StripText(Head(lines))
             norm == NormalizeForDedup(line)
             idx == DuplicateIndex(norm, kept_norms)
         IN IF line = <<>> \/ norm = <<>> THEN DedupLines(Tail(lines), kept, kept_norms)
            ELSE IF idx = 0
                 THEN DedupLines(Tail(lines), Append(kept, line), Append(kept_norms, norm))
            ELSE IF Len(line) > Len(kept[idx])
                 THEN DedupLines(Tail(lines), [kept EXCEPT ![idx] = line],
                                 [kept_norms EXCEPT ![idx] = norm])
            ELSE DedupLines(Tail(lines), kept, kept_norms)

\* _dedup_material_lines
DedupMaterialLines(lines) == DedupLines(lines, <<>>, <<>>)

\* ------------------------------------------------------------ the compiler
\* an evidence item: type, text, score (in tenths), meta.stars as stored
\* (0 when absent), source.field and meta.kind; items carry no source.card
MAX_ITEMS(t) ==
    CASE t = "world_rule" -> MAX_WORLD_RULE
      [] t = "fact" -> MAX_FACT
      [] t = "summary" -> MAX_SUMMARY
      [] t = "world_entity" -> MAX_WORLD_ENTITY
      [] t = "character" -> MAX_CHARACTER
      [] t = "text_chunk" -> MAX_TEXT_CHUNK
      [] t = "memory" -> MAX_MEMORY
      [] OTHER -> MAX_SUMMARY

\* line 662: the material types in the order they are compiled
MaterialTypes == <<"fact", "summary", "text_chunk", "world_entity", "character", "memory">>

\* _safe_score
SafeScore(item) == item.score

\* _item_stars: absent counts as 1, the value is clamped to 1..3
ItemStars(item) ==
    LET stars == IF item.stars = 0 THEN 1 ELSE item.stars
    IN IF stars < 1 THEN 1 ELSE IF stars > MAX_STARS THEN MAX_STARS ELSE stars

\* list.sort(key=..., reverse=True) with a key (major, minor): descending by
\* key, equal keys keep their order
SortDescending(items, major, minor) ==
    LET n == Len(items)
        Before(j, i) == \/ major[j] > major[i]
                        \/ major[j] = major[i] /\ minor[j] > minor[i]
                        \/ major[j] = major[i] /\ minor[j] = minor[i] /\ j < i
        Rank(i) == 1 + Cardinality({j \in 1..n : Before(j, i)})
    IN [p \in 1..n |-> items[CHOOSE i \in 1..n : Rank(i) = p]]

\* the sort by (stars, score), lines 644 and 673
SortByStarsThenScore(items) ==
    SortDescending(items, [i \in 1..Len(items) |-> ItemStars(items[i])],
                   [i \in 1..Len(items) |-> SafeScore(items[i])])

\* truncate: texts over max_len are cut and end in an ellipsis
Truncate(t, max_len) ==
    IF Len(t) <= max_len THEN t ELSE SubSeq(t, 1, max_len - 1) \o <<"...">>

\* _truncate_to_boundary, with the ASCII punctuation of line 854 in its order
TruncateToBoundary(t, max_len) ==
    LET head == SubSeq(t, 1, max_len)
        punctuation == <<";", ".", ",">>
        floor == IF BOUNDARY_MIN_INDEX > max_len \div 3
                 THEN BOUNDARY_MIN_INDEX ELSE max_len \div 3
        \* str.rfind as a position from 1, 0 when absent
        LastIndexOf(c) ==
            LET at == {i \in 1..Len(head) : head[i] = c}
            IN IF at = {} THEN 0 ELSE CHOOSE i \in at : \A j \in at : j <= i
        usable == {k \in 1..Len(punctuation) :
                      LastIndexOf(punctuation[k]) # 0
                      /\ LastIndexOf(punctuation[k]) - 1 >= floor}
        first == CHOOSE k \in usable : \A j \in usable : k <= j
    IN IF Len(t) <= max_len THEN t
       ELSE IF usable = {} THEN Truncate(t, max_len)
       ELSE StripText(SubSeq(head, 1, LastIndexOf(punctuation[first])))

\* _format_material_text for an item without a source card
FormatMaterialText(item) ==
    LET text == StripText(item.text)
    IN IF text = <<>> THEN <<>>
       ELSE IF item.type \in {"text_chunk", "summary"}
            THEN TruncateToBoundary(CleanTextForMemory(text), CHUNK_TEXT_LIMIT)
       ELSE Truncate(CleanTextForMemory(text), MATERIAL_TEXT_LIMIT)

\* str.startswith
HasPrefix(t, prefix) ==
    Len(t) >= Len(prefix) /\ SubSeq(t, 1, Len(prefix)) = prefix

\* _should_include_material, for texts that carry no reason annotation
ShouldIncludeMaterial(item) ==
    LET text == StripText(item.text)
        stars == ItemStars(item)
    IN IF text = <<>> THEN FALSE
       ELSE IF item.type = "memory" /\ item.kind \in {"user_unknown", "research_trace"}
            THEN FALSE
       ELSE IF HasPrefix(text, <<"a", "l", "i", "a", "s", "e", "s", ":">>)
               \/ item.field = "aliases"
            THEN item.type = "character" /\ stars <= 1
       ELSE IF HasPrefix(text, <<"c", "a", "t", "e", "g", "o", "r", "y", ":">>)
               \/ item.field = "category"
            THEN item.type = "world_entity" /\ stars >= 2
       ELSE IF HasPrefix(text, <<"i", "m", "m", "u", "t", "a", "b", "l", "e", ":">>)
               \/ item.field = "immutable"
            THEN FALSE
       ELSE IF item.type = "world_entity" /\ stars <= 1 /\ SafeScore(item) < LOW_ENTITY_SCORE
            THEN FALSE
       ELSE IF item.type = "character" /\ stars <= 1
            THEN item.field \in {"description", "aliases"}
       ELSE IF item.type = "character" /\ stars = 2
            THEN item.field \in {"description", "identity", "motivation",
                                 "relationships", "appearance", "arc"}
       ELSE TRUE

\* the characters of an ASCII word token
TokenChars ==
    {"a", "b", "c", "d", "e", "f", "g", "h", "i", "j", "k", "l", "m",
     "n", "o", "p", "q", "r", "s", "t", "u", "v", "w", "x", "y", "z",
     "0", "1", "2", "3", "4", "5", "6", "7", "8", "9"}

\* _extract_terms on a text without CJK characters: the maximal runs of
\* token characters of the lower-cased text (line 1052)
ExtractTerms(t) ==
    LET RECURSIVE Tokens(_, _)
        \* the runs in the rest of the text, run being the one under way
        Tokens(s, run) ==
            IF s = <<>> THEN (IF run = <<>> THEN {} ELSE {run})
            ELSE IF Lower(Head(s)) \in TokenChars
                 THEN Tokens(Tail(s), Append(run, Lower(Head(s))))
            ELSE (IF run = <<>> THEN {} ELSE {run}) \cup Tokens(Tail(s), <<>>)
    IN Tokens(t, <<>>)

\* _build_focus_terms: terms of the goal and the names of the first six characters
FocusTermsOf(goal_text, characters) ==
    (ExtractTerms(goal_text)
     \cup {StripText(characters[i]) :
              i \in 1..(IF Len(characters) < FOCUS_CHARACTER_LIMIT
                        THEN Len(characters) ELSE FOCUS_CHARACTER_LIMIT)})
    \ {<<>>}

\* _focus_score_text: the number of focus terms that occur in the text
FocusScoreText(text, focus_terms) ==
    IF text = <<>> \/ focus_terms = {} THEN 0
    ELSE Cardinality({term \in focus_terms : IsSubstring(term, text)})

RECURSIVE StripNonEmptyTexts(_)
\* [str(item).strip() for item in items if str(item).strip()] (lines 723, 1084)
StripNonEmptyTexts(items) ==
    IF items = <<>> THEN <<>>
    ELSE IF StripText(Head(items)) = <<>> THEN StripNonEmptyTexts(Tail(items))
         ELSE <<StripText(Head(items))>> \o StripNonEmptyTexts(Tail(items))

\* _unique_texts: the stripped texts, empty ones and repeats left out
UniqueTexts(items) ==
    LET RECURSIVE Unique(_, _)
        Unique(rest, seen) ==
            IF rest = <<>> THEN <<>>
            ELSE LET text == StripText(Head(rest))
                 IN IF text = <<>> \/ text \in seen THEN Unique(Tail(rest), seen)
                    ELSE <<text>> \o Unique(Tail(rest), seen \cup {text})
    IN Unique(items, {})

\* _select_focus_facts
SelectFocusFacts(facts, focus_terms, limit) ==
    LET raw == StripNonEmptyTexts(facts)
        scored == SortDescending(raw,
                      [i \in 1..Len(raw) |-> FocusScoreText(raw[i], focus_terms)],
                      [i \in 1..Len(raw) |-> Len(raw[i])])
        focused == SelectItems(scored,
                       {i \in 1..Len(scored) : FocusScoreText(scored[i], focus_terms) > 0})
    IN IF raw = <<>> \/ limit <= 0 THEN <<>>
       ELSE IF focus_terms = {} THEN Take(raw, limit)
       ELSE IF focused # <<>> THEN Take(focused, limit)
       ELSE Take(raw, IF limit < UNFOCUSED_FACTS_LIMIT THEN limit ELSE UNFOCUSED_FACTS_LIMIT)

RECURSIVE FormatNonEmpty(_)
\* the formatted texts of the items, empty ones left out
FormatNonEmpty(items) ==
    IF items = <<>> THEN <<>>
    ELSE IF FormatMaterialText(Head(items)) = <<>> THEN FormatNonEmpty(Tail(items))
         ELSE <<FormatMaterialText(Head(items))>> \o FormatNonEmpty(Tail(items))

\* lines 646-649: the bar a world_rule item passes to become a hard constraint
PassesWorldRuleBar(item) ==
    ~(ItemStars(item) < MIN_WORLD_RULE_STARS) /\ ~(SafeScore(item) < MIN_WORLD_RULE_SCORE)

\* lines 643-652: the world_rule items promoted to constraint lines
WorldRuleCandidates(evidence_items) ==
    LET rules == SelectItems(evidence_items,
                     {i \in 1..Len(evidence_items) : evidence_items[i].type = "world_rule"})
        sorted == SortByStarsThenScore(rules)
    IN FormatNonEmpty(SelectItems(sorted,
                          {i \in 1..Len(sorted) : PassesWorldRuleBar(sorted[i])}))

\* the candidates of a type, all of them
CapItemsNone(items, t) == items

\* line 676: candidates[: MAX_ITEMS.get(t, 4)]
CapItems(items, t) == Take(items, MAX_ITEMS(t))

\* lines 663-679: the material lines of one type
MaterialOfType(t, evidence_items, focus_terms) ==
    LET candidates == SelectItems(evidence_items,
                          {i \in 1..Len(evidence_items) :
                              /\ evidence_items[i].type = t
                              /\ ShouldIncludeMaterial(evidence_items[i])})
        n == Len(candidates)
        scores == [i \in 1..n |-> SafeScore(candidates[i])]
        by_focus == SortDescending(candidates,
                        [i \in 1..n |-> FocusScoreText(candidates[i].text, focus_terms)],
                        scores)
        focused == SelectItems(by_focus,
                       {i \in 1..n : FocusScoreText(by_focus[i].text, focus_terms) > 0})
        ordered == IF t \in {"text_chunk", "summary"} /\ focus_terms # {}
                   THEN (IF focused # <<>> THEN focused ELSE by_focus)
                   ELSE IF t \in {"world_entity", "character"}
                        THEN SortByStarsThenScore(candidates)
                   ELSE SortDescending(candidates, scores, [i \in 1..n |-> 0])
    IN FormatNonEmpty(CapItems(ordered, t))

RECURSIVE MapTexts(_, _)
\* the list comprehensions of the compiler: "clean" is line 641 (no source
\* card to prefix), "forbidden" line 642 (the prefix stands for the Chinese
\* one), "material" line 685, "bullet" lines 656, 685 and 692
MapTexts(texts, how) ==
    IF texts = <<>> THEN <<>>
    ELSE LET text == Head(texts)
             mapped == CASE how = "clean" -> CleanTextForMemory(text)
                         [] how = "forbidden" ->
                                CleanTextForMemory(<<"t", "a", "b", "o", "o", ":", " ">> \o text)
                         [] how = "material" ->
                                Truncate(CleanTextForMemory(text), MATERIAL_TEXT_LIMIT)
                         [] how = "bullet" -> <<"-", " ">> \o text
         IN IF how = "forbidden" /\ text = <<>> THEN MapTexts(Tail(texts), how)
            ELSE <<mapped>> \o MapTexts(Tail(texts), how)

\* the bullets of a section, "- none" for an empty one (lines 654-658)
BulletsOrNone(texts) ==
    IF texts = <<>> THEN <<<<"-", " ", "none">>>> ELSE MapTexts(texts, "bullet")

\* _compile_working_memory: the sections, and the text as a list of lines;
\* the section titles and the text for a missing goal stand for the Chinese ones
CompileWorkingMemory(brief, chapter_goal, evidence_items, unresolved_gaps) ==
    LET goal_text == IF StripText(chapter_goal) # <<>> THEN StripText(chapter_goal)
                     ELSE IF StripText(brief.goal) # <<>> THEN StripText(brief.goal)
                     ELSE <<"n", "o", "n", "e">>
        focus_terms == FocusTermsOf(goal_text, brief.characters)
        promoted == WorldRuleCandidates(evidence_items)
        constraint_lines == DedupMaterialLines(UniqueTexts(
            MapTexts(brief.world_constraints, "clean")
            \o MapTexts(brief.forbidden, "forbidden") \o promoted))
        by_type == [i \in 1..Len(MaterialTypes) |->
                        MaterialOfType(MaterialTypes[i], evidence_items, focus_terms)]
        brief_facts == SelectFocusFacts(brief.facts, focus_terms, MAX_BRIEF_FACTS)
        material_lines == DedupMaterialLines(UniqueTexts(
            by_type[1] \o by_type[2] \o by_type[3] \o by_type[4] \o by_type[5]
            \o by_type[6] \o brief_facts))
    IN [working_memory |->
            <<<<"goal", ":", " ">> \o goal_text, <<"constraints", ":">>>>
            \o BulletsOrNone(Take(constraint_lines, MAX_WORLD_RULE))
            \o <<<<"material", ":">>>>
            \o BulletsOrNone(MapTexts(material_lines, "material"))
            \o <<<<"unresolved", ":">>>>
            \o BulletsOrNone(Take(unresolved_gaps, MAX_GAP_BULLETS)),
        promoted |-> promoted,
        constraints |-> Take(constraint_lines, MAX_WORLD_RULE),
        by_type |-> by_type,
        brief_facts |-> brief_facts,
        material |-> material_lines,
        unresolved |-> Take(unresolved_gaps, MAX_GAP_BULLETS)]

\* the evidence list as the call leaves it, had line 644 sorted the list it was given
EvidenceSortedInPlace(evidence_items) == SortByStarsThenScore(evidence_items)

\* the evidence list as the call leaves it: lines 643 and 663 build new lists
\* and sort those, the list given is only read
EvidenceAfterCompile(evidence_items) == evidence_items

\* n distinct two-character texts of one category, told apart by an index character
CategoryTexts(c, n) ==
    LET index == <<"0", "1", "2", "3", "4", "5", "6", "7", "8", "9",
                   "a", "b", "c", "d", "e", "f">>
    IN [i \in 1..n |-> <<c, index[i]>>]

\* n three-star items of one type, with scores 3.0, 3.5, 4.0 in turn
CategoryItems(t, c, n) ==
    [i \in 1..n |-> [type |-> t, text |-> CategoryTexts(c, n)[i],
                     score |-> 30 + 5 * (i % 3), stars |-> 3,
                     field |-> "description", kind |-> ""]]

\* a compile call whose categories are either empty or over their caps
\* (constraints with world rules, summaries with text chunks, world
\* entities with characters)
IsBulkCompileCall(a) ==
    LET Sizes(cap) == {0, cap + MaxOverCap}
    IN \E nk \in Sizes(MAX_WORLD_RULE), nb \in Sizes(MAX_BRIEF_FACTS),
          nf \in Sizes(MAX_FACT), ns \in Sizes(MAX_SUMMARY),
          nw \in Sizes(MAX_WORLD_ENTITY), nm \in Sizes(MAX_MEMORY),
          ng \in Sizes(MAX_GAP_BULLETS), goal \in {<<>>, <<"b">>} :
        LET nr == nk
            nc == IF ns = 0 THEN 0 ELSE MAX_TEXT_CHUNK + MaxOverCap
            nh == IF nw = 0 THEN 0 ELSE MAX_CHARACTER + MaxOverCap
            evidence == CategoryItems("world_rule", "r", nr) \o CategoryItems("fact", "f", nf)
                        \o CategoryItems("summary", "s", ns)
                        \o CategoryItems("text_chunk", "c", nc)
                        \o CategoryItems("world_entity", "w", nw)
                        \o CategoryItems("character", "h", nh)
                        \o CategoryItems("memory", "m", nm)
        IN a = [fn |-> "_compile_working_memory",
                brief |-> [goal |-> goal, characters |-> <<>>,
                           world_constraints |-> CategoryTexts("k", nk),
                           forbidden |-> <<>>,
                           facts |-> CategoryTexts("b", nb)],
                chapter_goal |-> <<>>,
                evidence_items |-> evidence,
                given |-> evidence,
                unresolved_gaps |-> CategoryTexts("g", ng)]

\* the evidence items of the short lists
SmallItems ==
    {[type |-> "world_rule", text |-> t, score |-> s, stars |-> n,
      field |-> "", kind |-> ""] :
        t \in {<<>>, <<"r", "1">>, <<"r", "2">>}, s \in {30, 35, 40}, n \in {2, 3}}
    \cup {[type |-> "world_rule", text |-> <<"r", "1">>, score |-> 40, stars |-> 0,
           field |-> "", kind |-> ""],
          [type |-> "world_rule", text |-> <<"r", "2">>, score |-> 40, stars |-> 4,
           field |-> "", kind |-> ""],
          [type |-> "fact", text |-> <<"f", "1">>, score |-> 30, stars |-> 0,
           field |-> "", kind |-> ""],
          [type |-> "memory", text |-> <<"f", "1", " ", "r", "1">>, score |-> 40, stars |-> 3,
           field |-> "", kind |-> "user_unknown"],
          [type |-> "character", text |-> <<"h", "1">>, score |-> 40, stars |-> 2,
           field |-> "aliases", kind |-> ""]}

\* a compile call with a short evidence list
IsSmallCompileCall(a) ==
    \E evidence \in ListsUpTo(SmallItems, MaxEvidence),
       chapter_goal \in {<<>>, <<"R">>},
       forbidden \in {<<>>, <<<<"r", "1">>, <<>>>>} :
        a = [fn |-> "_compile_working_memory",
             brief |-> [goal |-> <<"f">>, characters |-> <<<<"h", "1">>>>,
                        world_constraints |-> <<<<"r", "2", " ">>>>,
                        forbidden |-> forbidden,
                        facts |-> <<<<"b", "1">>, <<" ">>, <<"f", "1", ".", ".", ".">>>>],
             chapter_goal |-> chapter_goal,
             evidence_items |-> evidence,
             given |-> evidence,
             unresolved_gaps |-> CategoryTexts("g", 1)]

\* one call of _compile_working_memory
CompileOf(a) ==
    CompileWorkingMemory(a.brief, a.chapter_goal, a.evidence_items, a.unresolved_gaps)

\* the first call: its output, and the evidence list as it is left
ApplyCompile ==
    /\ applied = "none"
    /\ argument.fn = "_compile_working_memory"
    /\ result' = <<CompileOf(argument)>>
    /\ argument' = [argument EXCEPT !.evidence_items = EvidenceAfterCompile(@)]
    /\ applied' = "_compile_working_memory"
    /\ UNCHANGED programVars

\* the second call, with what the first one left
ApplyCompileAgain ==
    /\ applied = "_compile_working_memory"
    /\ result' = Append(result, CompileOf(argument))
    /\ argument' = [argument EXCEPT !.evidence_items = EvidenceAfterCompile(@)]
    /\ applied' = "_compile_working_memory twice"
    /\ UNCHANGED programVars

\* characters of the lines given to the deduplicator on its own
LineChars == {"a", "b", "-"}

ApplyDedupMaterialLines ==
    /\ applied = "none"
    /\ argument.fn = "_dedup_material_lines"
    /\ result' = DedupMaterialLines(argument.lines)
    /\ applied' = "_dedup_material_lines"
    /\ UNCHANGED <<programVars, argument>>

InitCompiler ==
    /\ scene_brief = [goal |-> "", characters |-> <<>>, timeline |-> TRUE,
                      world |-> TRUE, facts |-> TRUE]
    /\ max_research_rounds = 1
    /\ max_question_rounds = 1
    /\ ProgramAtRest
    /\ applied = "none"
    /\ \/ \E l \in ListsUpTo(ListsUpTo(LineChars, MaxLineLen), MaxLines) :
              argument = [fn |-> "_dedup_material_lines", lines |-> l]
       \/ IsBulkCompileCall(argument)
       \/ IsSmallCompileCall(argument)
    /\ result = <<>>

NextCompiler ==
    \/ ApplyDedupMaterialLines
    \/ ApplyCompile
    \/ ApplyCompileAgain

SpecCompiler == InitCompiler /\ [][NextCompiler]_vars

\* ------------------------------------------------------------- properties
\* C1: one run of the research loop calls prepare at most max_research_rounds
\* times, and the i-th call carries round index i (1, 2, ... in steps of one).
C1_RoundBound ==
    /\ Len(prepare_rounds) <= max_research_rounds
    /\ \A i \in 1..Len(prepare_rounds) : prepare_rounds[i] = i

\* a run that used every round its bound allows, more than one
C1_Witness ==
    /\ pc = "loop_returned"
    /\ max_research_rounds >= 2
    /\ Len(prepare_rounds) = max_research_rounds

\* C2: once a round's report is sufficient the loop stops with reason
\* sufficient: that round is the last one prepared, the planner is not called
\* in or after it, and the loop is on its way out with that reason.
C2_MonotonicStopping ==
    \A i \in 1..Len(round_reports) :
        round_reports[i] =>
            /\ i = Len(round_reports)
            /\ Len(prepare_rounds) = i
            /\ \A j \in 1..Len(plan_calls) : plan_calls[j] < prepare_rounds[i]
            /\ pc \in {"loop_end", "loop_returned"}
            /\ pc = "loop_end" => stop_reason = "sufficient"
            /\ pc = "loop_returned" =>
                   loop_result.research_stop_reason = "sufficient"

\* a sufficient first round with rounds still left
C2_Witness ==
    /\ pc = "loop_returned"
    /\ round_reports = <<TRUE>>
    /\ max_research_rounds >= 2
    /\ loop_result.research_stop_reason = "sufficient"

\* C3 as stated: the payload delivered to a chapter request has questions only
\* when its stop reason is max_rounds and its report needs user input.
C3_QuestionsOnlyAtRoundBound ==
    (pc = "decide" /\ payload.present /\ payload.questions # <<>>) =>
        /\ payload.research_stop_reason = "max_rounds"
        /\ payload.sufficiency_report.needs_user_input

\* C4 as stated: a payload returned by the loop whose report needs user input
\* stopped at the round bound.
C4_NeedsInputOnlyAtRoundBound ==
    (pc = "loop_returned" /\ loop_result.present
     /\ loop_result.sufficiency_report.needs_user_input) =>
        loop_result.research_stop_reason = "max_rounds"

\* C4, amended: a payload returned by the loop whose report needs user input
\* never stopped as sufficient; it stopped at the round bound or, in offline
\* mode only, with offline_stop, and its report is then not sufficient.
C4_NeedsInputNeverSufficient ==
    (pc = "loop_returned" /\ loop_result.present
     /\ loop_result.sufficiency_report.needs_user_input) =>
        /\ loop_result.research_stop_reason \in {"max_rounds", "offline_stop"}
        /\ loop_result.research_stop_reason = "offline_stop" => offline
        /\ ~loop_result.sufficiency_report.sufficient

\* an offline run that stopped after round 1 with a report that needs input
C4_Witness ==
    /\ pc = "loop_returned"
    /\ loop_result.present
    /\ loop_result.sufficiency_report.needs_user_input
    /\ loop_result.research_stop_reason = "offline_stop"

\* C5 as stated: start_session and answer_questions answer WAITING_USER_INPUT
\* with questions only when the loop of that call stopped with max_rounds.
C5_AskOnlyAtRoundBound ==
    (call \in {"start", "answer"} /\ response.status = "WAITING_USER_INPUT"
     /\ response.questions # <<>>) =>
        response.stop = "max_rounds"

\* C6: for max_research_rounds >= 1, a payload returned by the loop carries
\* one of the five stop reasons, never the initial value unknown.
C6_StopReasonIsTerminal ==
    (max_research_rounds >= 1 /\ pc = "loop_returned" /\ loop_result.present) =>
        /\ loop_result.research_stop_reason \in StopReasons
        /\ loop_result.research_stop_reason # "unknown"

\* an online run that went through all its rounds without becoming sufficient
C6_Witness ==
    /\ pc = "loop_returned"
    /\ ~offline
    /\ max_research_rounds >= 2
    /\ loop_result.present
    /\ Len(prepare_rounds) = max_research_rounds
    /\ loop_result.research_stop_reason = "max_rounds"

\* C7: offline, the planner is never called and no second round runs; when
\* round 1 is not sufficient and the bound is above 1 the loop returns with
\* offline_stop right after round 1.
C7_OfflineStopsAfterRoundOne ==
    offline =>
        /\ plan_calls = <<>>
        /\ Len(prepare_rounds) <= 1
        /\ (round_reports = <<FALSE>> /\ max_research_rounds > 1) =>
              /\ pc \in {"loop_end", "loop_returned"}
              /\ prepare_rounds = <<1>>
              /\ pc = "loop_end" => stop_reason = "offline_stop"
              /\ pc = "loop_returned" =>
                     loop_result.research_stop_reason = "offline_stop"

\* an offline run whose first round was not sufficient, with rounds left
C7_Witness ==
    /\ offline
    /\ pc = "loop_returned"
    /\ round_reports = <<FALSE>>
    /\ max_research_rounds > 1
    /\ loop_result.research_stop_reason = "offline_stop"

\* C8 as stated: a failing plan request between rounds does not leave the
\* loop as an exception; the loop goes on to return with no_queries.
C8_PlannerFailureContained ==
    failure = "planner" =>
        /\ pc # "loop_raised"
        /\ pc = "loop_returned" =>
               /\ loop_result.present
               /\ loop_result.research_stop_reason = "no_queries"

\* C9 as stated: a failing search for one gap raises out of neither prepare
\* nor the loop; the round goes on with the remaining gaps.
C9_SearchFailureContained ==
    failure = "search" => pc \notin {"loop_raised", "direct_raised"}

\* C10 as stated: when round 1 retrieves nothing for every gap, one fallback
\* retrieval with the goal text has been issued by the time prepare returns.
C10_GoalFallbackIssued ==
    (pc = "self_check" /\ prepare_rounds = <<1>> /\ hits = 0
     /\ user_answers = <<>> /\ scene_brief.goal # "") =>
        fallback_searches = 1

\* the payloads a state holds: the round's, the loop's and the stored one
C11_HeldPayloads == {payload, working_payload, loop_result, memory_pack}

\* C11: in every sufficiency report, sufficient is the negation of "some gap
\* is missing or some weak gap is critical", and needs_user_input is the
\* negation of sufficient; so a critical weak gap alone makes the report ask
\* for input, and weak gaps that are not critical leave it sufficient.
C11_ReportIsDerived ==
    \A p \in C11_HeldPayloads :
        p.present =>
            LET r == p.sufficiency_report
            IN /\ r.sufficient =
                      ~(r.missing_entities # <<>> \/ r.critical_weak_gaps # <<>>)
               /\ r.needs_user_input = ~r.sufficient
               /\ (r.missing_entities = <<>> /\ r.critical_weak_gaps # <<>>) =>
                      r.needs_user_input
               /\ (r.missing_entities = <<>> /\ r.critical_weak_gaps = <<>>
                   /\ r.weak_gaps # <<>>) => r.sufficient

\* a round whose report has no missing gap, one critical weak gap and one
\* weak gap that is not critical
C11_Witness ==
    /\ pc = "self_check"
    /\ payload.present
    /\ payload.sufficiency_report.missing_entities = <<>>
    /\ Len(payload.sufficiency_report.critical_weak_gaps) = 1
    /\ Len(payload.sufficiency_report.weak_gaps) = 2
    /\ payload.sufficiency_report.needs_user_input

\* the askable gaps of a prepare outcome, by position
C12_AskableIndexes(outcome) ==
    {i \in 1..Len(outcome.gaps) : outcome.gaps[i].ask_user /\ outcome.gaps[i].text # ""}

\* the gap's text shares a term with the focus terms, or the gap is a plot point
C12_PlotRelevant(gap, focus_terms) ==
    gap.kind = "plot_point" \/ TermsOf(gap.text) \cap focus_terms # {}

\* C12 as stated: an askable gap is in missing_entities exactly when its score
\* is 0, in weak_gaps exactly when 3.0 <= score < 3.8, in critical_weak_gaps
\* exactly when it is weak and plot-relevant, and in none of them from 3.8 on.
C12_MissingMeansScoreZero ==
    applied = "prepare" =>
        \A i \in C12_AskableIndexes(result) :
            LET g == result.gaps[i]
                sc == ScoreOf(result.gap_support_scores, g.text)
                r == result.sufficiency_report
                weak == sc >= MIN_GAP_SUPPORT_SCORE
                        /\ sc < MIN_GAP_SUPPORT_SCORE + WELL_SUPPORTED_MARGIN
            IN /\ (g.text \in Range(r.missing_entities)) <=> (sc = 0)
               /\ (g.text \in Range(r.weak_gaps)) <=> weak
               /\ (g.text \in Range(r.critical_weak_gaps)) <=>
                      (weak /\ C12_PlotRelevant(g, result.focus_terms))
               /\ sc >= MIN_GAP_SUPPORT_SCORE + WELL_SUPPORTED_MARGIN =>
                      g.text \notin Range(r.missing_entities \o r.weak_gaps
                                          \o r.critical_weak_gaps)

\* C12, amended: an askable gap is in missing_entities exactly when it is not
\* supported, that is when its score is below 3.0 (0 included); the rest is as
\* stated: weak for 3.0 <= score < 3.8, critical when weak and plot-relevant,
\* in no list from 3.8 on.
C12_MissingMeansUnsupported ==
    applied = "prepare" =>
        \A i \in C12_AskableIndexes(result) :
            LET g == result.gaps[i]
                sc == ScoreOf(result.gap_support_scores, g.text)
                r == result.sufficiency_report
                weak == sc >= MIN_GAP_SUPPORT_SCORE
                        /\ sc < MIN_GAP_SUPPORT_SCORE + WELL_SUPPORTED_MARGIN
            IN /\ (g.text \in Range(r.missing_entities)) <=>
                      (sc < MIN_GAP_SUPPORT_SCORE)
               /\ (g.text \in Range(r.weak_gaps)) <=> weak
               /\ (g.text \in Range(r.critical_weak_gaps)) <=>
                      (weak /\ C12_PlotRelevant(g, result.focus_terms))
               /\ sc >= MIN_GAP_SUPPORT_SCORE + WELL_SUPPORTED_MARGIN =>
                      g.text \notin Range(r.missing_entities \o r.weak_gaps
                                          \o r.critical_weak_gaps)

\* an outcome with a missing gap of score 2.0, a weak gap that is critical, a
\* weak gap that is not, and a gap at the well-supported bound
C12_Witness ==
    /\ applied = "prepare"
    /\ \E i \in C12_AskableIndexes(result) :
         /\ ScoreOf(result.gap_support_scores, result.gaps[i].text) = 20
         /\ result.gaps[i].text \in Range(result.sufficiency_report.missing_entities)
    /\ Len(result.sufficiency_report.weak_gaps) = 2
    /\ Len(result.sufficiency_report.critical_weak_gaps) = 1
    /\ \E i \in C12_AskableIndexes(result) :
         ScoreOf(result.gap_support_scores, result.gaps[i].text) = 38

\* the items of a scorer call that pass the term-overlap gate
C13_MatchingItems(gap, items) ==
    {i \in 1..Len(items) :
        /\ items[i].text # ""
        /\ \E k \in 1..Len(gap.queries) :
             TermsOf(gap.queries[k]) \cap TermsOf(items[i].text) # {}}

C13_SetMax(S) == CHOOSE m \in S : \A x \in S : x <= m

\* C13: the gap support score is the maximum score over the items whose text
\* holds a term of one of the gap's queries, 0 when none does; an added item
\* that does not match, or whose score is not higher, leaves the score as it is.
C13_ScoreIsGatedMax ==
    applied = "_gap_support_score" =>
        LET gap == argument.gap
            items == argument.items
            matching == C13_MatchingItems(gap, items)
        IN /\ result = C13_SetMax({items[i].score : i \in matching} \cup {0})
           /\ \A x \in UnitItems :
                (C13_MatchingItems(gap, <<x>>) = {} \/ x.score <= result) =>
                    /\ GapSupportScore(gap, Append(items, x)) = result
                    /\ GapSupportScore(gap, <<x>> \o items) = result

\* a call where a matching item scores 3.0 next to a higher item that does not match
C13_Witness ==
    /\ applied = "_gap_support_score"
    /\ result = 30
    /\ \E i \in 1..Len(argument.items) :
         /\ argument.items[i].score = 38
         /\ argument.items[i].text # ""
         /\ i \notin C13_MatchingItems(argument.gap, argument.items)

\* C14: whatever the gaps, the support found and the minimum-question flag,
\* prepare returns at most 3 unresolved gaps and at most 3 questions.
C14_AtMostThree ==
    applied = "prepare" =>
        /\ Len(result.unresolved_gaps) <= 3
        /\ Len(result.questions) <= 3

\* four askable gaps, none of them supported, and three of them selected
C14_Witness ==
    /\ applied = "prepare"
    /\ Len(result.sufficiency_report.missing_entities) >= 4
    /\ Len(result.unresolved_gaps) = 3
    /\ Len(result.questions) = 3

\* C15: a gap with ask_user=false is in neither unresolved_gaps nor questions,
\* whatever its score and with or without forced minimum questions.
C15_SilentGapNeverAsked ==
    applied = "prepare" =>
        \A i \in 1..Len(result.gaps) :
            ~result.gaps[i].ask_user =>
                /\ \A j \in 1..Len(result.unresolved_gaps) :
                     /\ result.unresolved_gaps[j].text # result.gaps[i].text
                     /\ result.unresolved_gaps[j].ask_user
                /\ \A j \in 1..Len(result.questions) :
                     result.questions[j].gap # result.gaps[i].text

\* the supplementary gap found nothing, minimum questions are forced and
\* fewer than three gaps were selected
C15_Witness ==
    /\ applied = "prepare"
    /\ argument.force_minimum_questions
    /\ \E i \in 1..Len(result.gaps) :
         /\ ~result.gaps[i].ask_user
         /\ ScoreOf(result.gap_support_scores, result.gaps[i].text) = 0
    /\ Len(result.unresolved_gaps) \in 1..2

\* C20 as stated: with a goal present, build_gap_items returns between 3 and 8
\* gaps with pairwise distinct texts, each with a query, one of them a
\* plot_point gap whose query is the goal text.
C20_ThreeToEightGaps ==
    (applied = "build_gap_items" /\ argument.brief.goal # "") =>
        /\ Len(result) >= 3
        /\ Len(result) <= 8
        /\ \A i, j \in 1..Len(result) : result[i].text = result[j].text => i = j
        /\ \A i \in 1..Len(result) : result[i].queries # <<>>
        /\ \E i \in 1..Len(result) :
             /\ result[i].kind = "plot_point"
             /\ result[i].queries = <<argument.brief.goal>>

\* C17 as stated: when the normal form of one line given to the deduplicator
\* is a substring of the normal form of another, the output does not hold
\* both lines, and the one it holds is not the shorter of the two.
C17_SubstringPairsCollapse ==
    applied = "_dedup_material_lines" =>
        \A i, j \in 1..Len(argument.lines) :
            LET A == StripText(argument.lines[i])
                B == StripText(argument.lines[j])
            IN (/\ A # B
                /\ NormalizeForDedup(B) # <<>>
                /\ IsSubstring(NormalizeForDedup(B), NormalizeForDedup(A))) =>
                   /\ ~(A \in Range(result) /\ B \in Range(result))
                   /\ (B \in Range(result)) => Len(B) >= Len(A)

C18_EveryCategoryIsCapped ==
    applied \in {"_compile_working_memory", "_compile_working_memory twice"} =>
        \A k \in 1..Len(result) :
            LET out == result[k]
            IN /\ Len(out.constraints) <= 6
               /\ Len(out.by_type[1]) <= 8
               /\ Len(out.by_type[2]) <= 4
               /\ Len(out.by_type[3]) <= 4
               /\ Len(out.by_type[4]) <= 6
               /\ Len(out.by_type[5]) <= 4
               /\ Len(out.by_type[6]) <= 4
               /\ Len(out.brief_facts) <= 12
               /\ Len(out.material) <= 8 + 4 + 4 + 6 + 4 + 4 + 12
               /\ Len(out.unresolved) <= 6
               /\ Len(out.working_memory) <= 4 + 6 + (8 + 4 + 4 + 6 + 4 + 4 + 12) + 6

\* C18 witness: a call with more than the cap in every category, compiled to
\* exactly the cap in each.
C18_Witness ==
    /\ applied = "_compile_working_memory"
    /\ Len(argument.brief.world_constraints) > 6
    /\ Len(argument.brief.facts) > 12
    /\ Len(argument.unresolved_gaps) > 6
    /\ \A i \in 1..Len(MaterialTypes) :
           /\ Cardinality({n \in 1..Len(argument.given) :
                              argument.given[n].type = MaterialTypes[i]})
                  > MAX_ITEMS(MaterialTypes[i])
           /\ Len(result[1].by_type[i]) = MAX_ITEMS(MaterialTypes[i])
    /\ Len(result[1].constraints) = 6
    /\ Len(result[1].brief_facts) = 12
    /\ Len(result[1].unresolved) = 6
    /\ Len(result[1].working_memory) = 4 + 6 + 42 + 6

\* C19 as stated: a world_rule item with non-empty text (the only world rule
\* with that text) is promoted to a hard-constraint candidate if and only if
\* its score is at least 3.5 and its stars are at least 2.
C19_PromotedIffTwoStars ==
    applied = "_compile_working_memory" =>
        \A i \in 1..Len(argument.given) :
            LET item == argument.given[i]
            IN (/\ item.type = "world_rule"
                /\ StripText(item.text) # <<>>
                /\ \A j \in 1..Len(argument.given) :
                       (j # i /\ argument.given[j].type = "world_rule")
                           => argument.given[j].text # item.text)
               => ((FormatMaterialText(item) \in Range(result[1].promoted))
                      <=> (ItemStars(item) >= 2 /\ SafeScore(item) >= 35))

\* ------------------------------------------------- C21..C30: later sessions
\* gaps of the chapter for which the stored answers hold a "don't know"
C21_DeclinedGaps == {it.gap : it \in {s \in answer_memory : s.kind = "user_unknown"}} \ {""}

\* C21 as stated: after a "don't know" answer to a character-change gap's
\* question, the gap's text is in the report's unknown_gaps of the call that
\* carried the answer, and no response, of that call or of a later session of
\* the chapter, holds a question about that gap again
C21_DeclinedGapNeverAsked ==
    /\ (BuildIsOver /\ BuiltPayload.present /\ call = "answer")
            => UnknownGapTexts(BuildGapItems(scene_brief), user_answers)
                   \subseteq BuiltPayload.sufficiency_report.unknown_gaps
    /\ \A i \in 1..Len(response.questions) :
            ~(/\ response.questions[i].type = "character_change"
              /\ response.questions[i].gap \in C21_DeclinedGaps)

\* gaps of the chapter whose question has a stored valid answer
C22_SettledGaps == {it.gap : it \in LoadChapterAnswerMemoryItems(answer_memory)} \ {""}

\* C22 as stated: every call of prepare counts the gaps the stored answers
\* settle as answered, and no response holds a question about a gap, of
\* whatever kind, whose question has a stored valid answer
C22_SettledGapNeverAsked ==
    /\ pc = "retrieve" => (C22_SettledGaps \cap {gaps[i].text : i \in 1..Len(gaps)}) \subseteq AnsweredNow
    /\ \A i \in 1..Len(response.questions) : response.questions[i].gap \notin C22_SettledGaps

\* C23 as stated: an answer made a user_answer memory item in one round is in
\* the next round's evidence pack under the same id, with type memory and a
\* score no lower than any item retrieved for the same gap in that round
C23_AnswerRoundTrip ==
    applied = "evidence_pack" =>
        \A i \in 1..Len(result.round) :
            result.round[i].kind = "user_answer" =>
                \E j \in 1..Len(result.next_round) :
                    /\ result.next_round[j].id = result.round[i].id
                    /\ result.next_round[j].type = "memory"
                    /\ \A k \in 1..Len(result.next_round) :
                            (/\ result.next_round[k].kind = "retrieved"
                             /\ result.next_round[k].gap = result.round[i].gap)
                            => result.next_round[j].score >= result.next_round[k].score

\* round 2 of an online run has scored its gaps, after a round 1 that found
\* no support for any gap the user can be asked about and a plan request
C24_RoundTwoScored ==
    /\ pc = "retrieve"
    /\ mode = "loop"
    /\ gap_index > Len(gaps)
    /\ round_index = 2
    /\ plan_calls = <<0, 1>>
    /\ working_payload.present
    /\ \A i \in 1..Len(gaps) :
            gaps[i].ask_user => gaps[i].text \in Range(working_payload.sufficiency_report.missing_entities)

C24_PlotGapWellSupported ==
    \E i \in 1..Len(gaps) :
        /\ gaps[i].text = "gap_plot"
        /\ ScoreOf(gap_support_scores, gaps[i].text) >= WellSupportedBound

C24_AllGapsWellSupported ==
    \A i \in 1..Len(gaps) :
        gaps[i].ask_user => ScoreOf(gap_support_scores, gaps[i].text) >= WellSupportedBound

\* the round's payload is judged sufficient and the loop returns it with stop
\* reason sufficient and no question
C24_Rescued ==
    /\ payload'.sufficiency_report.sufficient
    /\ SelfCheckStop(payload', round_index, max_research_rounds, offline) = "sufficient"
    /\ FinalizePayload(payload', "sufficient").questions = <<>>

\* C24 as stated: when round 1 retrieves nothing for all gaps, the planner
\* returns queries and round 2 scores the plot-point gap at or above the
\* well-supported bound, round 2's report is sufficient and the loop ends with
\* stop reason sufficient and zero questions
C24_ReplanRescues ==
    [][(C24_RoundTwoScored /\ C24_PlotGapWellSupported) => C24_Rescued]_vars

\* C24 amended: the same when round 2 scores every gap the user can be asked
\* about, the plot-point gap included, at or above the well-supported bound
C24_ReplanRescuesAllGaps ==
    [][(C24_RoundTwoScored /\ C24_PlotGapWellSupported /\ C24_AllGapsWellSupported)
            => C24_Rescued]_vars

C24_Witness ==
    /\ pc = "self_check"
    /\ round_index = 2
    /\ plan_calls = <<0, 1>>
    /\ \E i \in 1..Len(BuildGapItems(scene_brief)) : BuildGapItems(scene_brief)[i].text = "gap_plot"
    /\ working_payload.present
    /\ \A i \in 1..Len(BuildGapItems(scene_brief)) :
            BuildGapItems(scene_brief)[i].text
                \in Range(working_payload.sufficiency_report.missing_entities)
    /\ payload.present
    /\ payload.sufficiency_report.sufficient
    /\ payload.questions = <<>>

\* the last round of the loop has scored its gaps: gap i, of kind plot_point,
\* is below the support threshold and every other gap the user can be asked
\* about is at or above the well-supported bound
C25_LastRoundScored(i) ==
    /\ pc = "retrieve"
    /\ mode = "loop"
    /\ gap_index > Len(gaps)
    /\ round_index = max_research_rounds
    /\ gaps[i].kind = "plot_point"
    /\ gaps[i].ask_user
    /\ ScoreOf(gap_support_scores, gaps[i].text) < MIN_GAP_SUPPORT_SCORE
    /\ \A j \in 1..Len(gaps) :
            (j # i /\ gaps[j].ask_user)
                => ScoreOf(gap_support_scores, gaps[j].text) >= WellSupportedBound

\* the loop stops at the round bound, asks for user input, and returns
\* exactly one question, of kind plot_point
C25_OnePlotQuestion ==
    /\ SelfCheckStop(payload', round_index, max_research_rounds, offline) = "max_rounds"
    /\ payload'.sufficiency_report.needs_user_input
    /\ LET questions == FinalizePayload(payload', "max_rounds").questions
       IN /\ Len(questions) = 1
          /\ questions[1].type = "plot_point"

C26_ReturnedPayload ==
    IF applied = "ensure_memory_pack" THEN result.returned.payload ELSE result.returned

\* C26: when the write of the memory pack fails, ensure_memory_pack and
\* _prepare_memory_pack_payload hand back the most recent valid snapshot if
\* the store holds one, and otherwise the freshly built, unsaved payload; they
\* never hand back nothing while one of the two exists
C26_WriteFailureFallsBack ==
    (applied \in {"ensure_memory_pack", "_prepare_memory_pack_payload"}
     /\ result.write_failed)
        => C26_ReturnedPayload = (IF argument.stored.payload.present
                                  THEN argument.stored.payload ELSE argument.built)

\* the payload a memory-pack call handed back, whichever of the three it was
C27_ReturnedPayload ==
    IF applied = "ensure_memory_pack" THEN result.returned.payload ELSE result.returned

\* a call that reads the stored snapshot without asking for a refresh
C27_ReadsSnapshot ==
    /\ applied \in {"ensure_memory_pack", "_prepare_memory_pack_payload"}
    /\ ~argument.force_refresh
    /\ argument.stored.payload.present

\* C27: the memory pack is written only on an explicit refresh (force_refresh,
\* or a research-only request) or when the store holds no valid snapshot; a
\* call without force_refresh that finds a valid snapshot runs no research,
\* hands back the stored payload unchanged and does not write the pack
C27_SnapshotWrittenOnlyOnRefresh ==
    applied \in {"ensure_memory_pack", "_prepare_memory_pack_payload", "run_research_only"}
        => /\ result.writes > 0
                => \/ applied = "run_research_only"
                   \/ argument.force_refresh
                   \/ ~argument.stored.payload.present
           /\ C27_ReadsSnapshot
                => /\ ~result.researched
                   /\ C27_ReturnedPayload = argument.stored.payload
                   /\ result.writes = 0
                   /\ result.stored = argument.stored

\* a payload that prepare produced without the minimum-question rule
C28_Produced == applied = "prepare" /\ ~argument.force_minimum_questions

\* C28: in every payload that prepare produces without forced minimum
\* questions, unresolved_gaps is empty exactly when the sufficiency report
\* says sufficient, so needs_user_input comes with at least one unresolved gap
C28_UnresolvedIffInsufficient ==
    C28_Produced
        => /\ (result.unresolved_gaps = <<>>) <=> result.sufficiency_report.sufficient
           /\ result.sufficiency_report.needs_user_input => result.unresolved_gaps # <<>>

\* prepare asks for input because of weak plot-relevant gaps alone, and leaves
\* another weak gap unselected
C28_Witness ==
    /\ C28_Produced
    /\ result.sufficiency_report.needs_user_input
    /\ result.sufficiency_report.missing_entities = <<>>
    /\ result.sufficiency_report.critical_weak_gaps # <<>>
    /\ Len(result.sufficiency_report.weak_gaps)
           > Len(result.sufficiency_report.critical_weak_gaps)
    /\ Len(result.unresolved_gaps) = Len(result.sufficiency_report.critical_weak_gaps)

\* the step in which a call returns WAITING_USER_INPUT
C29_ReturnsWaiting ==
    pc = "decide" /\ pc' = "idle" /\ response'.status = "WAITING_USER_INPUT"

\* C29: question_round never exceeds max_question_rounds; every return of
\* WAITING_USER_INPUT raises it by one and nothing else raises it; it goes
\* down only when a new session (or a research-only request) sets it to 0, so
\* between two start_session calls WAITING_USER_INPUT is returned at most
\* max_question_rounds times; and a call that decides with the bound reached
\* goes on to the writing flow
C29_QuestionRoundsBounded ==
    [][/\ question_round' <= max_question_rounds'
       /\ C29_ReturnsWaiting => question_round' = question_round + 1
       /\ question_round' > question_round => C29_ReturnsWaiting
       /\ question_round' < question_round
            => question_round' = 0 /\ pc = "idle" /\ call' \in {"start", "research"}
       /\ (pc = "decide" /\ pc' = "idle" /\ call \in {"start", "answer"}
           /\ question_round = max_question_rounds)
            => response'.status \in {"WRITING_DRAFT", "ERROR"}]_vars

\* with the bound reached and a question still open, answer_questions went on
\* to the draft
C29_Witness ==
    /\ pc = "idle"
    /\ call = "answer"
    /\ user_answers = <<[gap |-> "", answer |-> "valid"]>>
    /\ question_round = max_question_rounds
    /\ response.status = "WRITING_DRAFT"
    /\ response.stop = "max_rounds"

\* C30: under any interleaving of writing flows and cancel requests,
\* _stream_task is None or refers to the most recently started stream; a
\* stream that is in flight is the one _stream_task refers to, so that the
\* next writing flow and cancel_session, which cancel the task _stream_task
\* refers to, cancel the stream in flight; and a flow whose stream was
\* cancelled returns the error `Stream cancelled`
C30_StreamTaskTracksStream ==
    /\ stream_task # 0 => stream_task = started[Len(started)]
    /\ \A f \in 1..MaxFlows : streams[f] = "running" => stream_task = f
    /\ \A f \in 1..MaxFlows :
         (flows[f].pc = "returned" /\ streams[f] = "cancelled")
            => flows[f].result = "Stream cancelled"

====
